---- MODULE Spec2Model ----
(***************************************************************************)
(* Tansu: the relational log storage engine (tansu-storage/src/pg.rs),     *)
(* the e-tag cache over the object store                                   *)
(* (tansu-storage/src/dynostore/metadata.rs) and the consumer group CAS.   *)
(*                                                                         *)
(* The SQL statements that pg.rs includes with include_str!("pg/*.sql")    *)
(* are not part of the sources at hand; their effect is taken from the     *)
(* specification (sections 4.3 and 6) and kept in separate definitions.    *)
(***************************************************************************)
EXTENDS Integers, Sequences, FiniteSets, TLC

\* ------------------------------------------------------------------ bounds
NumSessions == 2        \* concurrent storage sessions (pooled connections)
MaxPartitions == 2      \* partitions a created topic may have
MaxBatch == 2           \* records in one produced batch
MaxHeaders == 1         \* headers on one record
MaxOffset == 2          \* cap on a partition's high watermark
MaxTopicIds == 2        \* topic uuids handed out (creations of a topic)
MaxCalls == 3           \* produce and delete_records calls started
MaxUuids == 5           \* uuids generated by update_group calls
MaxDetail == 2          \* distinct group details
NumTasks == 2           \* tasks that share one Cache
TicksPerMilli == 2      \* clock ticks in a millisecond
MaxRetention == 2       \* longest retention, in ticks
MaxTime == 2            \* last clock tick
MaxTags == 3            \* e-tags the backend hands out
MaxCacheCalls == 4      \* Cache operations started
KeyBytes == 1           \* bytes of one record's key and value
HeaderBytes == 1        \* bytes of one header's key and value
MaxMinBytes == 2        \* largest min_bytes of a fetch
BaseTimestamp == 1      \* base_timestamp of a produced batch, in milliseconds
MaxBrokers == 2         \* brokers that register
MaxReplication == 2     \* largest replication factor of a topic
MaxNumber == 3          \* largest number in an encoded value
MaxItems == 2           \* most elements of an array, entries of a map
MaxMetadataTopics == 2  \* topics a metadata request names
MaxTimestamp == 5       \* latest instant asked of list_offsets, in clock ticks

Sessions == 1..NumSessions
TopicNames == {"t"}
Groups == {"g"}
Details == 1..MaxDetail
Tasks == 1..NumTasks
Paths == {"p"}
CopyPaths == {"p", "q"}
Partitions == 0..(MaxPartitions - 1)

\* Option::None of a nullable bigint column read as Option<i64>
None == -1000

VARIABLES
    topic,        \* table topic: rows [id, name, partitions]
    watermark,    \* table watermark: rows [topic, partition, low, high, stable]
    record,       \* table record: rows [topic, partition, id], grouped by
                  \* (topic, partition), each group in commit order
    header,       \* table header: rows [topic, partition, id], grouped alike
    nextTopicId,  \* uuids generated for topics so far
    px,           \* per session: the produce call in flight
    calls,        \* produce and delete_records calls started so far
    response,     \* the response returned last:
                  \* [session, op, partition, kind, value, undone]
    history       \* per partition, for the properties: rows
                  \* [topic, partition, appended, trimmed]: the records that
                  \* successful produce calls appended, and whether
                  \* delete_records removed any

VARIABLES
    consumer_group,  \* table consumer_group: rows [grp, e_tag, detail]
    nextUuid,        \* uuids generated by Uuid::new_v4 so far
    gx,              \* per session: the update_group call in flight
    groupResponse    \* what update_group returned last:
                     \* [session, kind, e_tag, detail]

storageVars ==
    <<topic, watermark, record, header, nextTopicId, px, calls, response, history>>

VARIABLES
    now,             \* SystemTime::now(), in ticks
    retention,       \* Cache::retention, in ticks
    entries,         \* Cache::entries: path -> entry
    object_store,    \* the wrapped store: path -> object
    nextTag,         \* e-tags the wrapped store has handed out
    getCount,        \* get_opts calls the wrapped store has received
    cacheCalls,      \* Cache operations started
    cx,              \* per task: the Cache operation in flight
    cacheResponse,   \* what the Cache returned last
    listResult       \* what Cache::list or list_with_delimiter returned
                     \* last: [op, prefix, kind, objects]

VARIABLES
    fx,              \* the fetch call in flight
    fetched          \* what fetch returned last: [topic, partition, offset,
                     \* min_bytes, max_bytes, kind, ids]

VARIABLES
    txn_topition,    \* the partitions added to transactions: rows
                     \* [transaction, topic, partition]
    txnLog,          \* for the properties: the partitions that
                     \* txn_add_partitions calls took and no txn_end has
                     \* ended: [transaction, topic, partition, high], high
                     \* being the partition's high watermark at that call
    txnResponse      \* what txn_add_partitions or txn_end returned last:
                     \* [op, transaction, committed, kind, ended]

VARIABLES
    topition,            \* table topition: rows [topic, partition]
    topic_configuration, \* table topic_configuration: rows [topic, name]
    consumer_offset,     \* table consumer_offset: rows
                         \* [grp, topic, partition, offset]
    topicResponse,       \* what create_topic or delete_topic returned last:
                         \* [op, kind, id, rows]
    dx                   \* per session: the delete_topic call in flight

VARIABLES
    ox,                  \* per session: the offset_commit or offset_fetch
                         \* call in flight
    offsetCalls,         \* offset_commit and offset_fetch calls started
    offsetResponse       \* what offset_commit or offset_fetch returned last

VARIABLES
    producer,            \* table producer: rows [id, epoch]
    txn,                 \* table txn: rows [transaction, producer]
    nextProducerId,      \* producer ids handed out so far
    ix,                  \* per session: the init_producer call in flight
    producerCalls,       \* init_producer calls started
    producerResponse,    \* what init_producer returned last
    producerLog          \* for the properties: the (id, epoch) that
                         \* init_producer calls have returned with
                         \* ErrorCode::None

VARIABLES
    broker,              \* table broker with its "broker" listener: node ids
    metadataResponse,    \* what metadata returned last: [kind, brokers,
                         \* topics, request, rows], a topic being
                         \* [error_code, name, topic_id, partitions] and
                         \* rows the topic rows its queries returned
    mx                   \* the metadata call under way: [pc, request,
                         \* brokers, todo, topics, rows]

VARIABLES
    payload,             \* the record value on the wire: [schema, wire]
    rendered,            \* what as_json_value made of it: [kind, json]
    reencoded,           \* what as_kafka_record made of that: [kind, wire]
    columnSchema,        \* the AvroSchema of a column: [kind, size, scale, of]
    columnType,          \* what schema_data_type returned for it: [kind, type]
    columnBuilder        \* what schema_array_builder returned for it:
                         \* [kind, type], type being the DataType of the
                         \* arrays the builder finishes

VARIABLES
    registered,          \* the Schema of the topic: [format, key, value],
                         \* key and value TRUE for Some(validator)
    validated,           \* the last Validator::validate call:
                         \* [kind, batch, result]
    jsonArray            \* the last AsJsonValue::as_json_value call of a
                         \* batch: [kind, batch, objects]

VARIABLES
    rx,                     \* the delete_records call in flight
    deleteRecordsResponse,  \* what delete_records returned last for a
                            \* partition: [name, partition_index,
                            \* low_watermark, error_code]
    offsetStage,            \* what offset_stage returned last: [kind, name,
                            \* partition, log_start, high_watermark,
                            \* last_stable]
    listOffsetResponse      \* what list_offsets returned last for a
                            \* topition: [call, name, partition, request,
                            \* at, kind, offset, timestamp, now]

groupVars == <<consumer_group, nextUuid, gx, groupResponse>>

cacheVars == <<now, retention, entries, object_store, nextTag, getCount,
               cacheCalls, cx, cacheResponse, listResult>>

fetchVars == <<fx, fetched>>

txnVars == <<txn_topition, txnLog, txnResponse>>

topicVars == <<topition, topic_configuration, consumer_offset, topicResponse, dx>>

\* the variables outside the produce path, the group store and the cache
offsetVars == <<ox, offsetCalls, offsetResponse>>

producerVars == <<producer, txn, nextProducerId, ix, producerCalls,
                  producerResponse, producerLog>>

schemaVars == <<registered, validated, jsonArray>>

metadataVars == <<broker, metadataResponse, mx>>

columnVars == <<columnSchema, columnType, columnBuilder>>

avroVars == <<payload, rendered, reencoded, columnVars>>

recordsVars == <<rx, deleteRecordsResponse, offsetStage, listOffsetResponse>>

\* the variables outside the produce path, the group store and the cache
moreVars == <<fetchVars, txnVars, topicVars, offsetVars, producerVars,
              schemaVars, metadataVars, avroVars, recordsVars>>

vars == <<storageVars, groupVars, cacheVars, moreVars>>

\* ------------------------------------------------------------- helpers
\* the elements of a sequence
Range(seq) == {seq[i] : i \in 1..Len(seq)}

Batches == UNION {[1..n -> 0..MaxHeaders] : n \in 0..MaxBatch}

NoResponse ==
    [session |-> 0, op |-> "none", partition |-> 0, kind |-> "none",
     value |-> 0, undone |-> 0]

IdleSession ==
    [pc |-> "idle", topic |-> "t", partition |-> 0, batch |-> <<>>,
     tid |-> 0, low |-> None, high |-> None, stable |-> None,
     delta |-> 0, recs |-> <<>>, hdrs |-> <<>>,
     wm |-> <<None, None, None>>, locked |-> FALSE, aborted |-> FALSE]

TopicRows(name) == {t \in topic : t.name = name}

WatermarkRows(tid, partition) ==
    {w \in watermark : w.topic = tid /\ w.partition = partition}

\* rows of one partition, in table order
RECURSIVE PartitionRows(_, _, _)
PartitionRows(rows, tid, partition) ==
    IF rows = <<>> THEN <<>>
    ELSE LET r == Head(rows)
             rest == PartitionRows(Tail(rows), tid, partition)
         IN IF r.topic = tid /\ r.partition = partition
            THEN <<r>> \o rest ELSE rest

RECURSIVE Repeat(_, _)
Repeat(x, n) == IF n = 0 THEN <<>> ELSE <<x>> \o Repeat(x, n - 1)

\* rows of a transaction appended to a table at commit, behind the rows of
\* the same and of the earlier partitions
RECURSIVE InsertRows(_, _, _, _)
InsertRows(rows, tid, partition, new) ==
    IF rows = <<>> THEN new
    ELSE LET r == Head(rows)
         IN IF r.topic < tid \/ (r.topic = tid /\ r.partition <= partition)
            THEN <<r>> \o InsertRows(Tail(rows), tid, partition, new)
            ELSE new \o rows

\* Option<i64>::map_or and unwrap_or_default on a nullable column
MapOr(opt, default, mapped) == IF opt = None THEN default ELSE mapped

\* a row lock on the watermark row is held by another session's transaction
LockedByOther(s, tid, partition) ==
    \/ \E o \in Sessions \ {s} :
          px[o].locked /\ px[o].tid = tid /\ px[o].partition = partition
    \/ \E d \in Sessions : \E w \in dx[d].gone[2] :
          w.topic = tid /\ w.partition = partition

\* ------------------------------------------- SQL statements (pg/*.sql)
\* pg/watermark_insert.sql: a topic's watermark rows start at (-1, -1, -1)
watermark_insert(tid, partition) ==
    [topic |-> tid, partition |-> partition, low |-> -1, high |-> -1, stable |-> -1]

\* to_system_time: the SystemTime of a timestamp in milliseconds, and
\* to_timestamp: the whole milliseconds of a SystemTime
to_system_time(timestamp) == timestamp * TicksPerMilli

to_timestamp(system_time) == system_time \div TicksPerMilli

\* the batches produced carry base_timestamp BaseTimestamp, and the record
\* at position delta of a batch carries timestamp_delta delta
RecordTimestamp(delta) == BaseTimestamp + delta

\* pg/record_insert.sql: the record row of the offset handed in as $4, with
\* the timestamp handed in as $7
record_insert(tid, partition, offset, timestamp) ==
    [topic |-> tid, partition |-> partition, id |-> offset,
     timestamp |-> timestamp]

\* pg/header_insert.sql: a header row of the record at the offset handed in
header_insert(tid, partition, offset) ==
    [topic |-> tid, partition |-> partition, id |-> offset]

\* pg/watermark_update.sql: the row's (low, high, stable) become ($4, $5, $6)
watermark_update(w, low, high, stable) ==
    [w EXCEPT !.low = low, !.high = high, !.stable = stable]

\* ------------------------------------------------------ Postgres::produce
\* the offset computed without the step past the high watermark
AssignedOffsetFromHigh(high, delta) == MapOr(high, delta, high + delta)

\* the offset of the record at position delta of the batch
AssignedOffset(high, delta) == MapOr(high, delta, high + delta + 1)

\* the watermark written back after a batch of records_len records
NewLow(low) == MapOr(low, 0, low)

\* the high watermark of the batch alone, the prior high dropped
NewHighOfBatch(high, records_len) == records_len - 1

NewHigh(high, records_len) == MapOr(high, records_len - 1, high + records_len)

\* the stable watermark one past the batch
NewStablePastBatch(stable, records_len) ==
    MapOr(stable, records_len, stable + records_len + 1)

NewStable(stable, records_len) ==
    MapOr(stable, records_len - 1, stable + records_len)

\* the prior high returned as it was read
BaseOffsetIsHigh(high) == MapOr(high, 0, high)

\* the value produce returns
BaseOffset(high) == MapOr(high, 0, high + 1)

\* statements run on the connection instead of the transaction: what they
\* wrote stays
KeptWithoutTransaction(s) ==
    [watermark |-> watermark,
     record |-> InsertRows(record, px[s].tid, px[s].partition, px[s].recs),
     header |-> InsertRows(header, px[s].tid, px[s].partition, px[s].hdrs)]

\* a transaction dropped without commit rolls back: the tables keep nothing
\* of what its statements wrote
RolledBack(s) ==
    [watermark |-> watermark, record |-> record, header |-> header]

\* a plain SELECT takes no row lock and never waits
SelectNeverWaits(s, tid, partition) == FALSE

\* SELECT ... FOR UPDATE waits while another transaction holds the row lock
SelectForUpdateWaits(s, tid, partition) == LockedByOther(s, tid, partition)

\* the steps of produce at which an error is returned with `?`: every one of
\* them precedes the return of tx.commit(), so the transaction is dropped
\* uncommitted and rolls back
ProduceFailPoints == {"select", "insert", "commit"}

\* a produce call starts: connection, transaction
ProduceBegin(s, name, partition, batch) ==
    /\ px[s].pc = "idle"
    /\ calls < MaxCalls
    /\ calls' = calls + 1
    /\ px' = [px EXCEPT ![s] = [IdleSession EXCEPT
                 !.pc = "select", !.topic = name, !.partition = partition,
                 !.batch = batch]]
    /\ UNCHANGED <<topic, watermark, record, header, nextTopicId, response, history>>
    /\ UNCHANGED <<groupVars, cacheVars, moreVars>>

\* watermark_select_for_update: read (low, high, stable), lock the row
ProduceSelect(s) ==
    /\ px[s].pc = "select"
    /\ \E t \in TopicRows(px[s].topic) :
        \E w \in WatermarkRows(t.id, px[s].partition) :
            /\ ~SelectForUpdateWaits(s, t.id, px[s].partition)
            /\ w.high = None \/ w.high + Len(px[s].batch) <= MaxOffset
            /\ px' = [px EXCEPT ![s].pc = "insert", ![s].tid = t.id,
                         ![s].low = w.low, ![s].high = w.high,
                         ![s].stable = w.stable, ![s].locked = TRUE]
    /\ UNCHANGED <<topic, watermark, record, header, nextTopicId, calls, response, history>>
    /\ UNCHANGED <<groupVars, cacheVars, moreVars>>

\* the error of a header insert is logged and dropped by inspect_err
\* without "?": the loop goes on as if the statement had not been issued
StatementSkipped(failed) == FALSE

\* a statement that failed leaves the database transaction aborted: every
\* later statement of the transaction fails
TransactionAborted(failed) == failed

\* one turn of the loop over the batch: the record row, then its header
\* rows.  A failed header insert is logged and ignored by produce, but
\* leaves the database transaction aborted.
ProduceInsert(s, headerFails) ==
    /\ px[s].pc = "insert"
    /\ ~px[s].aborted
    /\ px[s].delta < Len(px[s].batch)
    /\ headerFails => px[s].batch[px[s].delta + 1] > 0
    /\ LET offset == AssignedOffset(px[s].high, px[s].delta)
           nh == px[s].batch[px[s].delta + 1]
       IN px' = [px EXCEPT
                 ![s].recs = @ \o <<record_insert(px[s].tid, px[s].partition, offset,
                                  to_system_time(RecordTimestamp(px[s].delta)))>>,
                 ![s].hdrs = IF headerFails THEN @
                             ELSE @ \o Repeat(header_insert(px[s].tid, px[s].partition, offset), nh),
                 ![s].aborted = TransactionAborted(headerFails),
                 ![s].delta = @ + 1]
    /\ UNCHANGED <<topic, watermark, record, header, nextTopicId, calls, response, history>>
    /\ UNCHANGED <<groupVars, cacheVars, moreVars>>

\* watermark_update with (low, high + N, stable + N)
ProduceWatermark(s) ==
    /\ px[s].pc = "insert"
    /\ ~px[s].aborted
    /\ px[s].delta = Len(px[s].batch)
    /\ LET records_len == Len(px[s].batch)
       IN px' = [px EXCEPT ![s].pc = "commit",
                     ![s].wm = <<NewLow(px[s].low),
                                 NewHigh(px[s].high, records_len),
                                 NewStable(px[s].stable, records_len)>>]
    /\ UNCHANGED <<topic, watermark, record, header, nextTopicId, calls, response, history>>
    /\ UNCHANGED <<groupVars, cacheVars, moreVars>>

\* tx.commit(): the transaction's rows become visible, the lock is released,
\* and produce returns Ok(base offset)
ProduceCommit(s) ==
    /\ px[s].pc = "commit"
    /\ \E w \in WatermarkRows(px[s].tid, px[s].partition) :
        watermark' = (watermark \ {w}) \cup
            {watermark_update(w, px[s].wm[1], px[s].wm[2], px[s].wm[3])}
    /\ record' = InsertRows(record, px[s].tid, px[s].partition, px[s].recs)
    /\ header' = InsertRows(header, px[s].tid, px[s].partition, px[s].hdrs)
    /\ px' = [px EXCEPT ![s] = IdleSession]
    /\ response' = [session |-> s, op |-> "produce", partition |-> px[s].partition,
                    kind |-> "ok", value |-> BaseOffset(px[s].high), undone |-> 0]
    /\ history' = {IF h.topic = px[s].tid /\ h.partition = px[s].partition
                   THEN [h EXCEPT !.appended = @ + Len(px[s].recs)] ELSE h :
                   h \in history}
    /\ UNCHANGED <<topic, nextTopicId, calls>>
    /\ UNCHANGED <<groupVars, cacheVars, moreVars>>

\* an error at one of the `?` of produce: the transaction is dropped and
\* rolls back, and produce returns Err.  At "select" the error may be the
\* missing watermark row (query_one on no row); once the transaction is
\* aborted every further statement fails.
ProduceFail(s) ==
    /\ px[s].pc \in ProduceFailPoints
    /\ watermark' = RolledBack(s).watermark
    /\ record' = RolledBack(s).record
    /\ header' = RolledBack(s).header
    /\ px' = [px EXCEPT ![s] = IdleSession]
    /\ response' = [session |-> s, op |-> "produce", partition |-> px[s].partition,
                    kind |-> "err", value |-> 0,
                    undone |-> Len(px[s].recs) + Len(px[s].hdrs)]
    /\ UNCHANGED <<topic, nextTopicId, calls, history>>
    /\ UNCHANGED <<groupVars, cacheVars, moreVars>>

\* the steps of the produce calls of one session
ProduceBy(s) ==
    \/ \E name \in TopicNames, partition \in Partitions, batch \in Batches :
          ProduceBegin(s, name, partition, batch)
    \/ ProduceSelect(s)
    \/ \E headerFails \in BOOLEAN : ProduceInsert(s, headerFails)
    \/ ProduceWatermark(s)
    \/ ProduceCommit(s)
    \/ ProduceFail(s)

produce ==
    \/ \E s \in Sessions, name \in TopicNames, partition \in Partitions,
          batch \in Batches : ProduceBegin(s, name, partition, batch)
    \/ \E s \in Sessions : ProduceSelect(s)
    \/ \E s \in Sessions, headerFails \in BOOLEAN : ProduceInsert(s, headerFails)
    \/ \E s \in Sessions : ProduceWatermark(s)
    \/ \E s \in Sessions : ProduceCommit(s)
    \/ \E s \in Sessions : ProduceFail(s)

\* ------------------------------------------------- Postgres::create_topic
MaxConfigs == 1

ConfigNames == {"c"}

\* CreatableTopic::configs: the names of the configs of the request
ConfigLists == UNION {[1..n -> ConfigNames] : n \in 0..MaxConfigs}

NoTopicResponse == [op |-> "none", kind |-> "none", id |-> 0, rows |-> <<>>]

topition_insert(tid, partition) == [topic |-> tid, partition |-> partition]

topic_configuration_insert(tid, name) == [topic |-> tid, name |-> name]

\* the tables after the transaction of create_topic: topic_insert, then a
\* topition and a watermark row per partition, then a row per config
CreatedTables(name, num_partitions, replication_factor, configs) ==
    LET tid == nextTopicId + 1
    IN [topic |-> topic \cup
            {[id |-> tid, name |-> name, partitions |-> num_partitions,
              replication_factor |-> replication_factor]},
        topition |-> topition \cup
            {topition_insert(tid, p) : p \in 0..(num_partitions - 1)},
        watermark |-> watermark \cup
            {watermark_insert(tid, p) : p \in 0..(num_partitions - 1)},
        topic_configuration |-> topic_configuration \cup
            {topic_configuration_insert(tid, configs[i]) : i \in 1..Len(configs)}]

\* the tables when the transaction of create_topic is rolled back
TopicTablesKept ==
    [topic |-> topic, topition |-> topition, watermark |-> watermark,
     topic_configuration |-> topic_configuration]

\* topic_insert as an upsert: a row is written although the name exists
TopicUpserted(name, num_partitions, replication_factor, configs) ==
    CreatedTables(name, num_partitions, replication_factor, configs)

\* the tables after create_topic for a name that exists: topic_insert is a
\* unique violation, the `?` returns and the transaction is dropped
AlreadyExistsTables(name, num_partitions, replication_factor, configs) == TopicTablesKept

\* one transaction: the topic row, its topition and watermark rows, its
\* configs.  A second topic of the same name is a unique violation
\* (TopicAlreadyExists) and changes nothing.  The error of a config insert
\* is logged and dropped: the transaction is aborted by then, commit() ends
\* it without an error and without any row, and create_topic returns the id.
\* validate_only is logged and not otherwise read.  topic_insert waits
\* while a delete_topic transaction holds the row of that name.
create_topic(name, num_partitions, replication_factor, configs, configFails, validate_only) ==
    /\ nextTopicId < MaxTopicIds
    /\ \A d \in Sessions : \A t \in dx[d].gone[6] : t.name # name
    /\ configFails => configs # <<>>
    /\ LET exists == TopicRows(name) # {}
           tables == IF exists THEN AlreadyExistsTables(name, num_partitions, replication_factor, configs)
                     ELSE IF configFails THEN TopicTablesKept
                     ELSE CreatedTables(name, num_partitions, replication_factor, configs)
       IN /\ topic' = tables.topic
          /\ topition' = tables.topition
          /\ watermark' = tables.watermark
          /\ topic_configuration' = tables.topic_configuration
          /\ nextTopicId' = IF exists THEN nextTopicId ELSE nextTopicId + 1
          /\ history' = history \cup
                {[topic |-> w.topic, partition |-> w.partition, appended |-> 0,
                  trimmed |-> FALSE] : w \in tables.watermark \ watermark}
          /\ topicResponse' =
                IF exists
                THEN [op |-> "create_topic", kind |-> "TopicAlreadyExists",
                      id |-> 0, rows |-> <<>>]
                ELSE [op |-> "create_topic", kind |-> "ok",
                      id |-> nextTopicId + 1, rows |-> <<>>]
    /\ UNCHANGED <<record, header, px, calls, response, consumer_offset, dx>>
    /\ UNCHANGED <<groupVars, cacheVars, fetchVars, txnVars, offsetVars, producerVars,
                   schemaVars, metadataVars, avroVars, recordsVars>>

\* ------------------------------------------------- Postgres::delete_topic
\* TopicId: a name or an id
TopicIds ==
    {[by |-> "name", name |-> n, id |-> 0] : n \in TopicNames} \cup
    {[by |-> "id", name |-> "", id |-> i] : i \in 1..MaxTopicIds}

\* topic_select_uuid / topic_select_name
topic_select(topic_id) ==
    IF topic_id.by = "id" THEN {t \in topic : t.id = topic_id.id}
    ELSE TopicRows(topic_id.name)

\* the statements of delete_topic after the select, in order
DeleteStatements ==
    <<"consumer offsets", "watermarks", "headers", "records", "topitions", "topic">>

TopicTables ==
    [consumer_offset |-> consumer_offset, watermark |-> watermark,
     header |-> header, record |-> record, topition |-> topition,
     topic |-> topic]

NoRowsDeleted == [n \in 1..Len(DeleteStatements) |-> {}]

IdleDelete ==
    [pc |-> "idle", id |-> 0, name |-> "", n |-> 0, gone |-> NoRowsDeleted,
     rows |-> <<>>]

\* the rows statement n of delete_topic names: each statement is given the
\* topic's NAME and reads the tables as committed when it runs
DeleteTargets(name, n) ==
    LET ids == {t.id : t \in TopicRows(name)}
        table == DeleteStatements[n]
    IN CASE table = "consumer offsets" -> {r \in consumer_offset : r.topic \in ids}
         [] table = "watermarks" -> {r \in watermark : r.topic \in ids}
         [] table = "headers" -> {r \in Range(header) : r.topic \in ids}
         [] table = "records" -> {r \in Range(record) : r.topic \in ids}
         [] table = "topitions" -> {r \in topition : r.topic \in ids}
         [] table = "topic" -> TopicRows(name)

\* the number of rows statement n deletes (`rows` of its debug line)
DeleteCount(n, targets) ==
    LET table == DeleteStatements[n]
    IN CASE table = "headers" ->
               Cardinality({i \in 1..Len(header) : header[i] \in targets})
         [] table = "records" ->
               Cardinality({i \in 1..Len(record) : record[i] \in targets})
         [] OTHER -> Cardinality(targets)

\* a delete statement waits while another transaction holds one of its
\* rows: a watermark row locked by produce, a consumer offset written by
\* offset_commit, a row deleted by another delete_topic
DeleteWaits(s, n, targets) ==
    \/ \E d \in Sessions \ {s} : dx[d].gone[n] \cap targets # {}
    \/ /\ DeleteStatements[n] = "watermarks"
       /\ \E o \in Sessions, w \in targets :
             px[o].locked /\ px[o].tid = w.topic /\ px[o].partition = w.partition
    \/ /\ DeleteStatements[n] = "consumer offsets"
       /\ \E o \in Sessions : \E w \in ox[o].written, r \in targets :
             w.grp = r.grp /\ w.topic = r.topic /\ w.partition = r.partition

\* the tables without the rows a transaction deleted
TablesWithout(gone) ==
    [consumer_offset |-> consumer_offset \ gone[1],
     watermark |-> watermark \ gone[2],
     header |-> SelectSeq(header, LAMBDA r : r \notin gone[3]),
     record |-> SelectSeq(record, LAMBDA r : r \notin gone[4]),
     topition |-> topition \ gone[5],
     topic |-> topic \ gone[6]]

\* the tables when a statement of delete_topic fails: the `?` returns, the
\* transaction is dropped and rolls back
DeleteRolledBack(s) == TopicTables

\* begin, then topic_select_uuid / topic_select_name: a plain select, which
\* waits for nothing and sees the committed topic table.  An error returns
\* with `?`; without a row the answer is UnknownTopicOrPartition; otherwise
\* the row's name is kept for the deletes.
DeleteTopicSelect(s, topic_id, fails) ==
    /\ dx[s].pc = "idle"
    /\ LET found == topic_select(topic_id)
       IN IF fails \/ found = {}
          THEN /\ topicResponse' =
                     [op |-> "delete_topic",
                      kind |-> IF fails THEN "err" ELSE "UnknownTopicOrPartition",
                      id |-> 0, rows |-> <<>>]
               /\ dx' = dx
          ELSE /\ \E t \in found :
                     dx' = [dx EXCEPT ![s] = [IdleDelete EXCEPT
                               !.pc = "delete", !.id = t.id, !.name = t.name,
                               !.n = 1]]
               /\ topicResponse' = topicResponse
    /\ UNCHANGED <<storageVars, topition, topic_configuration, consumer_offset>>
    /\ UNCHANGED <<groupVars, cacheVars, fetchVars, txnVars, offsetVars, producerVars,
                   schemaVars, metadataVars, avroVars, recordsVars>>

\* one delete statement, in the order of DeleteStatements: its rows are
\* gone for this transaction and locked for every other one
DeleteTopicStatement(s) ==
    /\ dx[s].pc = "delete"
    /\ LET n == dx[s].n
           targets == DeleteTargets(dx[s].name, n)
       IN /\ ~DeleteWaits(s, n, targets)
          /\ dx' = [dx EXCEPT
                      ![s].gone[n] = targets,
                      ![s].rows = @ \o <<DeleteCount(n, targets)>>,
                      ![s].n = n + 1,
                      ![s].pc = IF n = Len(DeleteStatements) THEN "commit" ELSE "delete"]
    /\ UNCHANGED <<storageVars, topition, topic_configuration, consumer_offset,
                   topicResponse>>
    /\ UNCHANGED <<groupVars, cacheVars, fetchVars, txnVars, offsetVars, producerVars,
                   schemaVars, metadataVars, avroVars, recordsVars>>

\* tx.commit(): the deletes become visible together, the locks are released
\* and delete_topic returns None.  No statement names topic_configuration.
DeleteTopicCommit(s) ==
    /\ dx[s].pc = "commit"
    /\ LET tables == TablesWithout(dx[s].gone)
       IN /\ consumer_offset' = tables.consumer_offset
          /\ watermark' = tables.watermark
          /\ header' = tables.header
          /\ record' = tables.record
          /\ topition' = tables.topition
          /\ topic' = tables.topic
    /\ history' = {h \in history : \A w \in dx[s].gone[2] : w.topic # h.topic}
    /\ topicResponse' = [op |-> "delete_topic", kind |-> "None", id |-> dx[s].id,
                         rows |-> dx[s].rows]
    /\ dx' = [dx EXCEPT ![s] = IdleDelete]
    /\ UNCHANGED <<nextTopicId, px, calls, response, topic_configuration>>
    /\ UNCHANGED <<groupVars, cacheVars, fetchVars, txnVars, offsetVars, producerVars,
                   schemaVars, metadataVars, avroVars, recordsVars>>

\* an error at a `?` of a prepare, an execute or the commit: the
\* transaction is dropped and rolls back, and delete_topic returns Err
DeleteTopicFail(s) ==
    /\ dx[s].pc \in {"delete", "commit"}
    /\ LET tables == DeleteRolledBack(s)
       IN /\ consumer_offset' = tables.consumer_offset
          /\ watermark' = tables.watermark
          /\ header' = tables.header
          /\ record' = tables.record
          /\ topition' = tables.topition
          /\ topic' = tables.topic
    /\ topicResponse' = [op |-> "delete_topic", kind |-> "err", id |-> dx[s].id,
                         rows |-> <<>>]
    /\ dx' = [dx EXCEPT ![s] = IdleDelete]
    /\ UNCHANGED <<nextTopicId, px, calls, response, history, topic_configuration>>
    /\ UNCHANGED <<groupVars, cacheVars, fetchVars, txnVars, offsetVars, producerVars,
                   schemaVars, metadataVars, avroVars, recordsVars>>

\* the steps of the delete_topic calls of one session
DeleteTopicBy(s) ==
    \/ \E topic_id \in TopicIds, fails \in BOOLEAN : DeleteTopicSelect(s, topic_id, fails)
    \/ DeleteTopicStatement(s)
    \/ DeleteTopicCommit(s)
    \/ DeleteTopicFail(s)

\* the steps of a delete_topic call that meets no error
DeleteTopicOk(s) ==
    \/ \E topic_id \in TopicIds : DeleteTopicSelect(s, topic_id, FALSE)
    \/ DeleteTopicStatement(s)
    \/ DeleteTopicCommit(s)

delete_topic == \E s \in Sessions : DeleteTopicBy(s)

\* ------------------------------ Postgres::offset_commit / offset_fetch
MaxCommitted == 1

MaxOffsetCalls == 3

\* the offset offset_fetch returns for a topition without a row
NoCommittedOffset == -1

\* the offsets of one request: a committed offset for some partitions
OffsetRequests ==
    UNION {[ps -> 0..MaxCommitted] : ps \in (SUBSET Partitions) \ {{}}}

IdleOffsetSession ==
    [pc |-> "idle", op |-> "none", grp |-> "g", topic |-> "t",
     offsets |-> <<>>, todo |-> <<>>, written |-> {}, result |-> <<>>,
     seen |-> {}]

NoOffsetResponse ==
    [session |-> 0, op |-> "none", kind |-> "none", grp |-> "g",
     topic |-> "t", offsets |-> <<>>, seen |-> {}]

\* consumer_offset_insert.sql: the rows one statement writes for the topic
\* of that name
consumer_offset_insert(grp, name, partition, offset) ==
    {[grp |-> grp, topic |-> t.id, partition |-> partition, offset |-> offset] :
        t \in TopicRows(name)}

SameOffsetKey(a, b) ==
    a.grp = b.grp /\ a.topic = b.topic /\ a.partition = b.partition

\* the table after the rows of a transaction are written over it
Upserted(table, rows) ==
    {r \in table : \A w \in rows : ~SameOffsetKey(r, w)} \cup rows

\* the statement waits while another transaction has written the row
OffsetUpsertWaits(s, rows) ==
    \/ \E o \in Sessions \ {s} : \E w \in ox[o].written, r \in rows : SameOffsetKey(w, r)
    \/ \E d \in Sessions : \E w \in dx[d].gone[1], r \in rows : SameOffsetKey(w, r)

\* consumer_offset_select.sql over a table: the committed offset, if any
consumer_offset_select(table, grp, name, partition) ==
    {r.offset : r \in {c \in table : /\ c.grp = grp
                                      /\ c.partition = partition
                                      /\ \E t \in TopicRows(name) : c.topic = t.id}}

\* query_opt(...).map_or(Ok(-1), ...)
FetchedOffset(table, grp, name, partition) ==
    LET found == consumer_offset_select(table, grp, name, partition)
    IN IF found = {} THEN NoCommittedOffset ELSE CHOOSE o \in found : TRUE

\* the slices that name each partition of a set once, in any order
Slices(ps) ==
    {q \in [1..Cardinality(ps) -> ps] :
        \A i \in DOMAIN q, j \in DOMAIN q : q[i] = q[j] => i = j}

\* the loops run over the slice of the request in its order
NextPartition(todo) == Head(todo)

\* the table when the transaction of offset_commit is dropped
OffsetsRolledBack(s) == consumer_offset

OffsetCommitBegin(s, grp, name, offsets, order) ==
    /\ ox[s].pc = "idle"
    /\ offsetCalls < MaxOffsetCalls
    /\ offsetCalls' = offsetCalls + 1
    /\ ox' = [ox EXCEPT ![s] = [IdleOffsetSession EXCEPT
                 !.pc = "upsert", !.op = "offset_commit", !.grp = grp,
                 !.topic = name, !.offsets = offsets,
                 !.todo = order]]
    /\ UNCHANGED <<consumer_offset, offsetResponse>>
    /\ UNCHANGED <<storageVars, groupVars, cacheVars, fetchVars, txnVars,
                   topition, topic_configuration, topicResponse, dx, producerVars,
                   schemaVars, metadataVars, avroVars, recordsVars>>

\* one turn of the loop: the upsert of one (topition, offset), inside the
\* transaction
OffsetCommitUpsert(s) ==
    /\ ox[s].pc = "upsert"
    /\ ox[s].todo # <<>>
    /\ LET p == NextPartition(ox[s].todo)
           rows == consumer_offset_insert(ox[s].grp, ox[s].topic, p, ox[s].offsets[p])
       IN /\ ~OffsetUpsertWaits(s, rows)
          /\ ox' = [ox EXCEPT ![s].todo = Tail(@),
                              ![s].written = Upserted(@, rows)]
    /\ UNCHANGED <<consumer_offset, offsetCalls, offsetResponse>>
    /\ UNCHANGED <<storageVars, groupVars, cacheVars, fetchVars, txnVars,
                   topition, topic_configuration, topicResponse, dx, producerVars,
                   schemaVars, metadataVars, avroVars, recordsVars>>

\* tx.commit(): the rows of the call become visible together; the
\* offset_fetch calls in flight may read the new table from now on
OffsetCommitCommit(s) ==
    /\ ox[s].pc = "upsert"
    /\ ox[s].todo = <<>>
    /\ consumer_offset' = Upserted(consumer_offset, ox[s].written)
    /\ ox' = [o \in Sessions |->
                IF o = s THEN IdleOffsetSession
                ELSE IF ox[o].op = "offset_fetch"
                     THEN [ox[o] EXCEPT !.seen = @ \cup {consumer_offset'}]
                     ELSE ox[o]]
    /\ offsetResponse' = [session |-> s, op |-> "offset_commit", kind |-> "ok",
                          grp |-> ox[s].grp, topic |-> ox[s].topic,
                          offsets |-> ox[s].offsets, seen |-> {}]
    /\ UNCHANGED offsetCalls
    /\ UNCHANGED <<storageVars, groupVars, cacheVars, fetchVars, txnVars,
                   topition, topic_configuration, topicResponse, dx, producerVars,
                   schemaVars, metadataVars, avroVars, recordsVars>>

\* an error at one of the `?` of offset_commit: the transaction is dropped
OffsetCommitFail(s) ==
    /\ ox[s].pc = "upsert"
    /\ consumer_offset' = OffsetsRolledBack(s)
    /\ ox' = [ox EXCEPT ![s] = IdleOffsetSession]
    /\ offsetResponse' = [session |-> s, op |-> "offset_commit", kind |-> "err",
                          grp |-> ox[s].grp, topic |-> ox[s].topic,
                          offsets |-> ox[s].offsets, seen |-> {}]
    /\ UNCHANGED offsetCalls
    /\ UNCHANGED <<storageVars, groupVars, cacheVars, fetchVars, txnVars,
                   topition, topic_configuration, topicResponse, dx, producerVars,
                   schemaVars, metadataVars, avroVars, recordsVars>>

offset_commit ==
    \/ \E s \in Sessions, grp \in Groups, name \in TopicNames,
          offsets \in OffsetRequests :
          \E order \in Slices(DOMAIN offsets) :
             OffsetCommitBegin(s, grp, name, offsets, order)
    \/ \E s \in Sessions : OffsetCommitUpsert(s)
    \/ \E s \in Sessions : OffsetCommitCommit(s)
    \/ \E s \in Sessions : OffsetCommitFail(s)

\* offset_fetch starts: a connection, no transaction
OffsetFetchBegin(s, grp, name, partitions, order) ==
    /\ ox[s].pc = "idle"
    /\ offsetCalls < MaxOffsetCalls
    /\ partitions # {}
    /\ offsetCalls' = offsetCalls + 1
    /\ ox' = [ox EXCEPT ![s] = [IdleOffsetSession EXCEPT
                 !.pc = "select", !.op = "offset_fetch", !.grp = grp,
                 !.topic = name, !.todo = order,
                 !.seen = {consumer_offset}]]
    /\ UNCHANGED <<consumer_offset, offsetResponse>>
    /\ UNCHANGED <<storageVars, groupVars, cacheVars, fetchVars, txnVars,
                   topition, topic_configuration, topicResponse, dx, producerVars,
                   schemaVars, metadataVars, avroVars, recordsVars>>

\* one turn of the loop: a statement of its own reads the committed row of
\* one topition
OffsetFetchSelect(s) ==
    /\ ox[s].pc = "select"
    /\ ox[s].todo # <<>>
    /\ LET p == NextPartition(ox[s].todo)
       IN ox' = [ox EXCEPT
                 ![s].todo = Tail(@),
                 ![s].result = @ \o <<[partition |-> p,
                     offset |-> FetchedOffset(consumer_offset, ox[s].grp,
                                              ox[s].topic, p)]>>]
    /\ UNCHANGED <<consumer_offset, offsetCalls, offsetResponse>>
    /\ UNCHANGED <<storageVars, groupVars, cacheVars, fetchVars, txnVars,
                   topition, topic_configuration, topicResponse, dx, producerVars,
                   schemaVars, metadataVars, avroVars, recordsVars>>

\* Ok(offsets)
OffsetFetchFinish(s) ==
    /\ ox[s].pc = "select"
    /\ ox[s].todo = <<>>
    /\ ox' = [ox EXCEPT ![s] = IdleOffsetSession]
    /\ offsetResponse' = [session |-> s, op |-> "offset_fetch", kind |-> "ok",
                          grp |-> ox[s].grp, topic |-> ox[s].topic,
                          offsets |-> ox[s].result, seen |-> ox[s].seen]
    /\ UNCHANGED <<consumer_offset, offsetCalls>>
    /\ UNCHANGED <<storageVars, groupVars, cacheVars, fetchVars, txnVars,
                   topition, topic_configuration, topicResponse, dx, producerVars,
                   schemaVars, metadataVars, avroVars, recordsVars>>

\* an error at one of the `?` of offset_fetch
OffsetFetchFail(s) ==
    /\ ox[s].pc = "select"
    /\ ox' = [ox EXCEPT ![s] = IdleOffsetSession]
    /\ offsetResponse' = [session |-> s, op |-> "offset_fetch", kind |-> "err",
                          grp |-> ox[s].grp, topic |-> ox[s].topic,
                          offsets |-> <<>>, seen |-> {}]
    /\ UNCHANGED <<consumer_offset, offsetCalls>>
    /\ UNCHANGED <<storageVars, groupVars, cacheVars, fetchVars, txnVars,
                   topition, topic_configuration, topicResponse, dx, producerVars,
                   schemaVars, metadataVars, avroVars, recordsVars>>

offset_fetch ==
    \/ \E s \in Sessions, grp \in Groups, name \in TopicNames,
          partitions \in SUBSET Partitions :
          \E order \in Slices(partitions) :
             OffsetFetchBegin(s, grp, name, partitions, order)
    \/ \E s \in Sessions : OffsetFetchSelect(s)
    \/ \E s \in Sessions : OffsetFetchFinish(s)
    \/ \E s \in Sessions : OffsetFetchFail(s)

\* the steps of the offset_commit calls of one session
OffsetCommitBy(s) ==
    \/ \E grp \in Groups, name \in TopicNames, offsets \in OffsetRequests :
          \E order \in Slices(DOMAIN offsets) :
             OffsetCommitBegin(s, grp, name, offsets, order)
    \/ OffsetCommitUpsert(s)
    \/ OffsetCommitCommit(s)
    \/ OffsetCommitFail(s)

\* ------------------------------------------------ Postgres::init_producer
MaxProducers == 2

MaxProducerCalls == 3

\* stands for i16::MAX: the largest epoch i16::try_from accepts
MaxEpoch == 2

\* Option::None of producer_id or producer_epoch
Absent == -2

ProducerIdArgs == {Absent, -1} \cup 1..MaxProducers

ProducerEpochArgs == {Absent, -1} \cup 0..MaxEpoch

NoRow == [id |-> -1, epoch |-> -1]

IdleProducerSession ==
    [pc |-> "idle", transaction_id |-> FALSE, producer_id |-> -1,
     producer_epoch |-> -1, row |-> NoRow, locked |-> FALSE,
     aborted |-> FALSE, floor |-> -1]

NoProducerResponse ==
    [session |-> 0, kind |-> "none", id |-> -1, epoch |-> -1,
     producer_id |-> -1, producer_epoch |-> -1, floor |-> -1]

\* the largest epoch returned so far for a producer id, -1 without one
ReturnedEpoch(id) ==
    LET es == {l.epoch : l \in {m \in producerLog : m.id = id}}
    IN IF es = {} THEN -1 ELSE CHOOSE e \in es : \A f \in es : f <= e

\* init_producer.sql: a row for the next producer id, at epoch 0
init_producer_sql == [id |-> nextProducerId + 1, epoch |-> 0]

\* the epoch init_txn_producer.sql gives a producer that is at epoch
NextEpoch(epoch) == epoch + 1

\* init_txn_producer.sql: the row of the producer, at its next epoch
init_txn_producer_sql(id) ==
    {[id |-> r.id, epoch |-> NextEpoch(r.epoch)] : r \in {q \in producer : q.id = id}}

\* the update waits while another transaction has updated the row
ProducerUpdateWaits(s, id) ==
    \E o \in Sessions \ {s} : ix[o].locked /\ ix[o].row.id = id

\* the table when the transaction of init_producer commits
ProducerCommitted(s) ==
    IF ix[s].aborted THEN producer
    ELSE {r \in producer : r.id # ix[s].row.id} \cup {ix[s].row}

\* i16::try_from(epoch)
EpochFits(epoch) == epoch <= MaxEpoch

\* a call with producer_id or producer_epoch None answers UnknownProducerId
\* at once; any other call takes a connection and begins a transaction
InitProducerBegin(s, transaction_id, producer_id, producer_epoch) ==
    /\ ix[s].pc = "idle"
    /\ producerCalls < MaxProducerCalls
    /\ producerCalls' = producerCalls + 1
    /\ IF producer_id = Absent \/ producer_epoch = Absent
       THEN /\ producerResponse' =
                 [session |-> s, kind |-> "UnknownProducerId", id |-> -1,
                  epoch |-> -1, producer_id |-> producer_id,
                  producer_epoch |-> producer_epoch, floor |-> -1]
            /\ UNCHANGED ix
       ELSE /\ ix' = [ix EXCEPT ![s] = [IdleProducerSession EXCEPT
                        !.pc = "query", !.transaction_id = transaction_id,
                        !.producer_id = producer_id,
                        !.producer_epoch = producer_epoch,
                        !.floor = ReturnedEpoch(producer_id)]]
            /\ UNCHANGED producerResponse
    /\ UNCHANGED <<producer, txn, nextProducerId, producerLog>>
    /\ UNCHANGED <<storageVars, groupVars, cacheVars, fetchVars, txnVars,
                   topicVars, offsetVars, schemaVars, metadataVars, avroVars, recordsVars>>

\* query_one of init_producer.sql for (-1, -1), of init_txn_producer.sql
\* otherwise; the id handed out is not given back by a rollback
InitProducerQuery(s) ==
    /\ ix[s].pc = "query"
    /\ IF ix[s].producer_id = -1 /\ ix[s].producer_epoch = -1
       THEN /\ nextProducerId < MaxProducers
            /\ nextProducerId' = nextProducerId + 1
            /\ ix' = [ix EXCEPT ![s].row = init_producer_sql,
                                ![s].pc = IF ix[s].transaction_id THEN "txn"
                                          ELSE "commit"]
       ELSE /\ ~ProducerUpdateWaits(s, ix[s].producer_id)
            /\ \E row \in init_txn_producer_sql(ix[s].producer_id) :
                  ix' = [ix EXCEPT ![s].row = row, ![s].locked = TRUE,
                                   ![s].pc = IF ix[s].transaction_id THEN "txn"
                                             ELSE "commit"]
            /\ UNCHANGED nextProducerId
    /\ UNCHANGED <<producer, txn, producerCalls, producerResponse, producerLog>>
    /\ UNCHANGED <<storageVars, groupVars, cacheVars, fetchVars, txnVars,
                   topicVars, offsetVars, schemaVars, metadataVars, avroVars, recordsVars>>

\* init_txn.sql, for a call with a transaction id; its result is dropped,
\* so an error leaves the transaction aborted and the call going on
InitProducerTxn(s, fails) ==
    /\ ix[s].pc = "txn"
    /\ ix' = [ix EXCEPT ![s].pc = "commit", ![s].aborted = fails]
    /\ UNCHANGED <<producer, txn, nextProducerId, producerCalls,
                   producerResponse, producerLog>>
    /\ UNCHANGED <<storageVars, groupVars, cacheVars, fetchVars, txnVars,
                   topicVars, offsetVars, schemaVars, metadataVars, avroVars, recordsVars>>

\* tx.commit() returns Ok: the rows are written, or, for an aborted
\* transaction, dropped; then i16::try_from(epoch) makes the answer
InitProducerCommit(s) ==
    /\ ix[s].pc = "commit"
    /\ producer' = ProducerCommitted(s)
    /\ txn' = IF ix[s].transaction_id /\ ~ix[s].aborted
              THEN {r \in txn : r.transaction # "x"} \cup
                   {[transaction |-> "x", producer |-> ix[s].row.id]}
              ELSE txn
    /\ ix' = [ix EXCEPT ![s] = IdleProducerSession]
    /\ producerResponse' =
          [session |-> s,
           kind |-> IF EpochFits(ix[s].row.epoch) THEN "None" ELSE "err",
           id |-> IF EpochFits(ix[s].row.epoch) THEN ix[s].row.id ELSE -1,
           epoch |-> IF EpochFits(ix[s].row.epoch) THEN ix[s].row.epoch ELSE -1,
           producer_id |-> ix[s].producer_id,
           producer_epoch |-> ix[s].producer_epoch,
           floor |-> ix[s].floor]
    /\ producerLog' = IF EpochFits(ix[s].row.epoch)
                      THEN producerLog \cup {ix[s].row}
                      ELSE producerLog
    /\ UNCHANGED <<nextProducerId, producerCalls>>
    /\ UNCHANGED <<storageVars, groupVars, cacheVars, fetchVars, txnVars,
                   topicVars, offsetVars, schemaVars, metadataVars, avroVars, recordsVars>>

\* an error at one of the `?` of init_producer, query_one on no row among
\* them: the transaction is dropped and rolls back
InitProducerFail(s) ==
    /\ ix[s].pc \in {"query", "txn", "commit"}
    /\ ix' = [ix EXCEPT ![s] = IdleProducerSession]
    /\ producerResponse' =
          [session |-> s, kind |-> "err", id |-> -1, epoch |-> -1,
           producer_id |-> ix[s].producer_id,
           producer_epoch |-> ix[s].producer_epoch, floor |-> ix[s].floor]
    /\ UNCHANGED <<producer, txn, nextProducerId, producerCalls, producerLog>>
    /\ UNCHANGED <<storageVars, groupVars, cacheVars, fetchVars, txnVars,
                   topicVars, offsetVars, schemaVars, metadataVars, avroVars, recordsVars>>

init_producer ==
    \/ \E s \in Sessions, transaction_id \in BOOLEAN,
          producer_id \in ProducerIdArgs, producer_epoch \in ProducerEpochArgs :
          InitProducerBegin(s, transaction_id, producer_id, producer_epoch)
    \/ \E s \in Sessions : InitProducerQuery(s)
    \/ \E s \in Sessions, fails \in BOOLEAN : InitProducerTxn(s, fails)
    \/ \E s \in Sessions : InitProducerCommit(s)
    \/ \E s \in Sessions : InitProducerFail(s)

\* -------------------------------------- Validator for Schema (avro, json)
MaxRecords == 2

Formats == {"avro", "json"}

\* a side of the schema document: no such field or property, one that
\* parses as a schema, one that does not
DocumentSides == {"absent", "schema", "unparsable"}

\* Option::None of a record's key or value
NoBytes == "none"

\* the bytes of a key or a value: a payload that conforms to the schema, one
\* that is read and does not conform, one that cannot be read, and one that
\* holds no value
Payloads == {"conforming", "nonconforming", "unreadable", "empty"}

SchemaRecords == [key : Payloads \cup {NoBytes}, value : Payloads \cup {NoBytes}]

SchemaBatches == UNION {[1..n -> SchemaRecords] : n \in 0..MaxRecords}

NoSchema == [format |-> "none", key |-> FALSE, value |-> FALSE]

NotValidated == [kind |-> "none", batch |-> <<>>, result |-> "none"]

\* From<&JsonValue> for Schema (avro), TryFrom<Bytes> for Schema (json): a
\* side whose schema does not parse is dropped by .ok()
SchemaFrom(format, key, value) ==
    [format |-> format, key |-> key = "schema", value |-> value = "schema"]

\* avro decode: Reader::with_schema, the first value of the reader, ok_or
decode(validator, encoded) ==
    IF ~validator THEN "Ok"
    ELSE IF encoded = NoBytes THEN "InvalidRecord"
    ELSE IF encoded = "unreadable" THEN "InvalidRecord"
    ELSE IF encoded = "nonconforming" THEN "InvalidRecord"
    ELSE IF encoded = "empty" THEN "InvalidRecord"
    ELSE "Ok"

\* avro validate: decode(validator, encoded).and(Ok(()))
avro_validate(validator, encoded) == decode(validator, encoded)

\* json validate: serde_json::from_reader, then validator.validate
json_validate(validator, encoded) ==
    IF ~validator THEN "Ok"
    ELSE IF encoded = NoBytes THEN "InvalidRecord"
    ELSE IF encoded \in {"unreadable", "empty"} THEN "InvalidRecord"
    ELSE IF encoded = "nonconforming" THEN "InvalidRecord"
    ELSE "Ok"

ValidateSide(format, validator, encoded) ==
    IF format = "avro" THEN avro_validate(validator, encoded)
    ELSE json_validate(validator, encoded)

\* Result::or: the first result when it is Ok, else the second
ResultOr(a, b) == IF a = "Ok" THEN a ELSE b

\* Result::and: the second result when the first is Ok, else the first
ResultAnd(a, b) == IF a = "Ok" THEN b ELSE a

\* the loop of Validator::validate over batch.records, left by `?` at the
\* first record that fails
RECURSIVE ValidateRecords(_, _)
ValidateRecords(schema, records) ==
    IF records = <<>> THEN "Ok"
    ELSE LET r == Head(records)
             result == ResultAnd(ValidateSide(schema.format, schema.key, r.key),
                                 ValidateSide(schema.format, schema.value, r.value))
         IN IF result # "Ok" THEN result
            ELSE ValidateRecords(schema, Tail(records))

\* the schema document of the topic is loaded
SchemaRegister(format, key, value) ==
    /\ registered' = SchemaFrom(format, key, value)
    /\ UNCHANGED <<validated, jsonArray>>
    /\ UNCHANGED <<storageVars, groupVars, cacheVars, fetchVars, txnVars,
                   topicVars, offsetVars, producerVars, metadataVars, avroVars, recordsVars>>

\* Validator::validate(&self, batch)
validate(batch) ==
    /\ registered.format # "none"
    /\ validated' = [kind |-> "validate", batch |-> batch,
                     result |-> ValidateRecords(registered, batch)]
    /\ UNCHANGED <<registered, jsonArray>>
    /\ UNCHANGED <<storageVars, groupVars, cacheVars, fetchVars, txnVars,
                   topicVars, offsetVars, producerVars, metadataVars, avroVars, recordsVars>>

\* the bytes of a key or a value handed to as_json_value: those of
\* Payloads, and a payload that conforms to the schema and holds a float
\* that is not a number
JsonPayloads == Payloads \cup {"notanumber"}

JsonRecords == [key : JsonPayloads \cup {NoBytes}, value : JsonPayloads \cup {NoBytes}]

JsonBatches == UNION {[1..n -> JsonRecords] : n \in 0..MaxRecords}

NothingRendered == [kind |-> "none", batch |-> <<>>, objects |-> <<>>]

\* a member that is not in the object
NoMember == "missing"

\* Schema::to_json_value: decode, then json_value of the decoded value;
\* JsonValue::Null when the side has no schema
to_json_value(validator, encoded) ==
    IF decode(validator, encoded) # "Ok" THEN decode(validator, encoded)
    ELSE IF ~validator THEN "Null"
    ELSE IF encoded = "notanumber" THEN "AvroToJson"
    ELSE "Value"

\* Result::into_iter: the value of an Ok, nothing of an Err
ResultIntoIter(result) ==
    IF result \in {"Null", "Value"} THEN result ELSE NoMember

\* Map::from_iter of the key's result chained with the value's
JsonObject(schema, r) ==
    [key |-> ResultIntoIter(to_json_value(schema.key, r.key)),
     value |-> ResultIntoIter(to_json_value(schema.value, r.value))]

\* AsJsonValue for Schema (avro): Ok(JsonValue::Array(...)) of one object
\* for each record of the batch
AsJsonValue(batch) ==
    /\ registered.format = "avro"
    /\ jsonArray' = [kind |-> "Ok", batch |-> batch,
                     objects |-> [i \in 1..Len(batch) |->
                                     JsonObject(registered, batch[i])]]
    /\ UNCHANGED <<registered, validated>>
    /\ UNCHANGED <<storageVars, groupVars, cacheVars, fetchVars, txnVars,
                   topicVars, offsetVars, producerVars, metadataVars, avroVars, recordsVars>>

\* ----------------------------------------------- Postgres::delete_records
MaxDeletePartitions == 2

\* "delete from record using topic, cluster where ... topic.name = $2 and
\*  record.partition = $3 and record.id >= $4 and record.topic = topic.id"
DeleteFrom(rows, name, partition, offset) ==
    SelectSeq(rows, LAMBDA r :
        ~(/\ r.partition = partition
          /\ r.id >= offset
          /\ \E t \in TopicRows(name) : r.topic = t.id))

NothingDeleted == [kind |-> "none", name |-> "", partitions |-> <<>>]

IdleDeleteRecords ==
    [pc |-> "idle", name |-> "", todo |-> <<>>, results |-> <<>>]

\* DeleteRecordsPartition: (partition_index, offset)
DeleteRecordsPartitions ==
    {[partition_index |-> p, offset |-> o] : p \in Partitions, o \in 0..MaxOffset}

\* DeleteRecordsTopic::partitions: a slice of one partition, or of several
\* partitions in any order, here with one offset for all of them
DeleteRecordsRequests ==
    UNION {{q \in [1..n -> DeleteRecordsPartitions] :
               \A i \in 1..n, j \in 1..n :
                   /\ q[i].partition_index = q[j].partition_index => i = j
                   /\ q[i].offset = q[j].offset} :
           n \in 1..MaxDeletePartitions}

\* the values "select last_value from record_id_seq" can give: a sequence
\* starts at 1
SequenceValues == 1..(MaxOffset + 1)

\* "select coalesce(min(record.id), (select last_value from record_id_seq))
\*  from record, topic, cluster where ... topic.name = $2 and
\*  record.partition = $3 and record.topic = topic.id"
minimum(rows, name, partition, last_value) ==
    LET ids == {rows[i].id : i \in {j \in 1..Len(rows) :
                    /\ rows[j].partition = partition
                    /\ \E t \in TopicRows(name) : rows[j].topic = t.id}}
    IN IF ids = {} THEN last_value
       ELSE CHOOSE m \in ids : \A i \in ids : m <= i

\* "select id as offset from record join (...) as minimum
\*  on record.id = minimum.offset": the rows of the whole record table
\* with that id
MinimumRows(rows, name, partition, last_value) ==
    SelectSeq(rows, LAMBDA r : r.id = minimum(rows, name, partition, last_value))

\* query_opt gives Err for more than one row and None for no row; both
\* become (low_watermark 0, UnknownServerError) by map_or
DeleteRecordsPartitionResult(partition_index, rows) ==
    IF Len(rows) = 1
    THEN [partition_index |-> partition_index,
          low_watermark |-> rows[1].id, error_code |-> "None"]
    ELSE [partition_index |-> partition_index,
          low_watermark |-> 0, error_code |-> "UnknownServerError"]

\* a delete_records call starts: a connection without a transaction, the
\* delete statement prepared, the loop over the partitions of the topic
DeleteRecordsBegin(name, partitions) ==
    /\ rx.pc = "idle"
    /\ calls < MaxCalls
    /\ calls' = calls + 1
    /\ rx' = [pc |-> "delete", name |-> name, todo |-> partitions,
              results |-> <<>>]
    /\ UNCHANGED <<topic, watermark, record, header, nextTopicId, px, response,
                   history, deleteRecordsResponse, offsetStage, listOffsetResponse>>
    /\ UNCHANGED <<groupVars, cacheVars, fetchVars, txnVars, topicVars, offsetVars,
                   producerVars, schemaVars, metadataVars, avroVars>>

\* the delete statement for the partition at the head of the slice,
\* committed on its own; it waits for rows a delete_topic transaction has
\* deleted.  No watermark row is written.
DeleteRecordsExecute ==
    /\ rx.pc = "delete"
    /\ LET partition == Head(rx.todo)
           kept == DeleteFrom(record, rx.name, partition.partition_index,
                              partition.offset)
       IN /\ \A d \in Sessions : \A r \in dx[d].gone[4] : r \in Range(kept)
          /\ record' = kept
          /\ history' = {IF /\ \E t \in TopicRows(rx.name) : h.topic = t.id
                            /\ h.partition = partition.partition_index
                            /\ kept # record
                         THEN [h EXCEPT !.trimmed = TRUE] ELSE h : h \in history}
    /\ rx' = [rx EXCEPT !.pc = "select"]
    /\ UNCHANGED <<topic, watermark, header, nextTopicId, px, calls, response,
                   deleteRecordsResponse, offsetStage, listOffsetResponse>>
    /\ UNCHANGED <<groupVars, cacheVars, fetchVars, txnVars, topicVars, offsetVars,
                   producerVars, schemaVars, metadataVars, avroVars>>

\* the statement that reads the minimum, a statement of its own: it sees
\* what is committed when it runs.  An error of query_opt (fails) ends as
\* UnknownServerError like a missing row.  After the last partition
\* delete_records returns Ok.
DeleteRecordsSelect(last_value, fails) ==
    /\ rx.pc = "select"
    /\ LET partition == Head(rx.todo)
           rows == IF fails THEN <<>>
                   ELSE MinimumRows(record, rx.name, partition.partition_index,
                                    last_value)
           results == rx.results \o
                         <<DeleteRecordsPartitionResult(partition.partition_index, rows)>>
       IN IF Tail(rx.todo) = <<>>
          THEN /\ deleteRecordsResponse' =
                     [kind |-> "Ok", name |-> rx.name, partitions |-> results]
               /\ rx' = IdleDeleteRecords
          ELSE /\ rx' = [rx EXCEPT !.pc = "delete", !.todo = Tail(@),
                                   !.results = results]
               /\ deleteRecordsResponse' = deleteRecordsResponse
    /\ UNCHANGED <<topic, watermark, record, header, nextTopicId, px, calls,
                   response, history, offsetStage, listOffsetResponse>>
    /\ UNCHANGED <<groupVars, cacheVars, fetchVars, txnVars, topicVars, offsetVars,
                   producerVars, schemaVars, metadataVars, avroVars>>

\* an error at a `?` of a prepare, of the execute or of try_get:
\* delete_records returns Err, and what the statements before it deleted
\* stays deleted
DeleteRecordsFail ==
    /\ rx.pc \in {"delete", "select"}
    /\ deleteRecordsResponse' = [kind |-> "Err", name |-> rx.name,
                                 partitions |-> <<>>]
    /\ rx' = IdleDeleteRecords
    /\ UNCHANGED <<topic, watermark, record, header, nextTopicId, px, calls,
                   response, history, offsetStage, listOffsetResponse>>
    /\ UNCHANGED <<groupVars, cacheVars, fetchVars, txnVars, topicVars, offsetVars,
                   producerVars, schemaVars, metadataVars, avroVars>>

\* the steps of a delete_records call that is in flight
DeleteRecordsSteps ==
    \/ DeleteRecordsExecute
    \/ \E last_value \in SequenceValues, fails \in BOOLEAN :
          DeleteRecordsSelect(last_value, fails)
    \/ DeleteRecordsFail

delete_records ==
    \/ \E name \in TopicNames, partitions \in DeleteRecordsRequests :
          DeleteRecordsBegin(name, partitions)
    \/ DeleteRecordsSteps

\* -------------------------------------------------- Postgres::offset_stage
NoStage ==
    [kind |-> "none", name |-> "", partition |-> 0, log_start |-> 0,
     high_watermark |-> 0, last_stable |-> 0]

\* pg/watermark_select.sql: the (low, high, stable) of the partition's
\* watermark row
watermark_select(name, partition) ==
    {w \in watermark : \E t \in TopicRows(name) :
        w.topic = t.id /\ w.partition = partition}

\* high and stable: "if offset == -1 { 0 } else { offset }"
Normalised(offset) == IF offset = -1 THEN 0 ELSE offset

\* log_start is column 0 as it is stored
LogStart(low) == low

\* query_one fails without a row
offset_stage(name, partition) ==
    /\ calls < MaxCalls
    /\ calls' = calls + 1
    /\ IF watermark_select(name, partition) = {}
       THEN offsetStage' = [NoStage EXCEPT !.kind = "Err", !.name = name,
                                          !.partition = partition]
       ELSE \E row \in watermark_select(name, partition) :
               offsetStage' =
                   [kind |-> "Ok", name |-> name, partition |-> partition,
                    log_start |-> LogStart(row.low),
                    high_watermark |-> Normalised(row.high),
                    last_stable |-> Normalised(row.stable)]
    /\ UNCHANGED <<topic, watermark, record, header, nextTopicId, px, response,
                   history, rx, deleteRecordsResponse, listOffsetResponse>>
    /\ UNCHANGED <<groupVars, cacheVars, fetchVars, txnVars, topicVars, offsetVars,
                   producerVars, schemaVars, metadataVars, avroVars>>

\* -------------------------------------------------- Postgres::list_offsets
NothingListed ==
    [call |-> 0, name |-> "", partition |-> 0, request |-> "none", at |-> 0,
     kind |-> "none", offset |-> 0, timestamp |-> 0, now |-> FALSE]

\* ListOffsetRequest: Earliest, Latest, Timestamp(at)
ListOffsetRequests ==
    {[type |-> "Earliest", at |-> 0], [type |-> "Latest", at |-> 0]}
    \cup {[type |-> "Timestamp", at |-> at] : at \in 0..MaxTimestamp}

\* the records of the partition of the topic of that name, in table order
RecordsOf(rows, name, partition) ==
    SelectSeq(rows, LAMBDA r :
        /\ r.partition = partition
        /\ \E t \in TopicRows(name) : r.topic = t.id)

\* the smallest id of some rows
MinId(rows) ==
    CHOOSE m \in {rows[i].id : i \in 1..Len(rows)} :
        \A i \in 1..Len(rows) : m <= rows[i].id

\* pg/list_earliest_offset.sql: the record of the partition with the
\* minimum id, no row for a partition without records
list_earliest_offset(rows, name, partition) ==
    LET mine == RecordsOf(rows, name, partition)
    IN SelectSeq(mine, LAMBDA r : r.id = MinId(mine))

\* pg/list_latest_offset.sql: last_value of the record id sequence, at the
\* time of the statement
list_latest_offset(last_value) ==
    <<[id |-> last_value, timestamp |-> 0, now |-> TRUE]>>

\* "select id as offset, timestamp from record join (select
\*  coalesce(min(record.id), (select last_value from record_id_seq)) ...
\*  where ... record.partition = $3 and record.timestamp >= $4 ...) as minimum
\*  on record.id = minimum.offset": the rows of the whole record table with
\* the id of the subquery
list_offset_by_timestamp(rows, name, partition, at, last_value) ==
    LET since == SelectSeq(RecordsOf(rows, name, partition),
                           LAMBDA r : r.timestamp >= at)
        offset == IF since = <<>> THEN last_value ELSE MinId(since)
    IN SelectSeq(rows, LAMBDA r : r.id = offset)

\* query_opt: Err for more than one row, returned by "?"; no row becomes
\* (SystemTime::now(), offset 0); a row becomes (column 0, column 1)
ListOffsetResponse(rows) ==
    IF Len(rows) > 1
    THEN [kind |-> "Err", offset |-> 0, timestamp |-> 0, now |-> FALSE]
    ELSE IF rows = <<>>
    THEN [kind |-> "Ok", offset |-> 0, timestamp |-> 0, now |-> TRUE]
    ELSE [kind |-> "Ok", offset |-> rows[1].id, timestamp |-> rows[1].timestamp,
          now |-> "now" \in DOMAIN rows[1]]

\* one (topition, request) of a list_offsets call
list_offsets(name, partition, request, last_value) ==
    /\ calls < MaxCalls
    /\ calls' = calls + 1
    /\ LET rows == CASE request.type = "Earliest" ->
                           list_earliest_offset(record, name, partition)
                     [] request.type = "Latest" ->
                           list_latest_offset(last_value)
                     [] request.type = "Timestamp" ->
                           list_offset_by_timestamp(record, name, partition,
                                                    request.at, last_value)
           list_offset == ListOffsetResponse(rows)
       IN listOffsetResponse' =
             [call |-> calls', name |-> name, partition |-> partition,
              request |-> request.type, at |-> request.at,
              kind |-> list_offset.kind, offset |-> list_offset.offset,
              timestamp |-> list_offset.timestamp, now |-> list_offset.now]
    /\ UNCHANGED <<topic, watermark, record, header, nextTopicId, px, response,
                   history, rx, deleteRecordsResponse, offsetStage>>
    /\ UNCHANGED <<groupVars, cacheVars, fetchVars, txnVars, topicVars, offsetVars,
                   producerVars, schemaVars, metadataVars, avroVars>>

\* ------------------------------------------------------- Postgres::fetch
\* a max_bytes that no partition of the model reaches
LargeMaxBytes == (MaxOffset + 1) * (KeyBytes + MaxHeaders * HeaderBytes)

\* stored and rows are kept for the properties: the ids the partition held
\* from the offset on, and the rows the record query returned; headers are
\* the header rows read for each record of the batch
NothingFetched ==
    [topic |-> "t", partition |-> 0, offset |-> 0, min_bytes |-> 0,
     max_bytes |-> 0, kind |-> "none", ids |-> <<>>,
     base_timestamp |-> 0, timestamp_deltas |-> <<>>,
     stored |-> <<>>, rows |-> <<>>, headers |-> <<>>]

IdleFetch == [pc |-> "idle", todo |-> <<>>, bytes |-> 0, batch |-> NothingFetched]

\* the rows of header_fetch.sql for (cluster, topic, partition, offset):
\* the header rows of one record of the topic of that name
header_fetch(name, partition, offset) ==
    Cardinality({i \in 1..Len(header) :
        /\ header[i].partition = partition
        /\ header[i].id = offset
        /\ \E t \in TopicRows(name) : header[i].topic = t.id})

\* the longest prefix of the rows whose bytes stay within max_bytes
RECURSIVE WithinBytes(_, _)
WithinBytes(rows, max_bytes) ==
    IF rows = <<>> \/ KeyBytes > max_bytes THEN <<>>
    ELSE <<Head(rows)>> \o WithinBytes(Tail(rows), max_bytes - KeyBytes)

\* the partition's records of the topic of that name with id >= offset
FromOffset(name, partition, offset) ==
    SelectSeq(record, LAMBDA r :
        /\ r.partition = partition
        /\ r.id >= offset
        /\ \E t \in TopicRows(name) : r.topic = t.id)

\* pg/record_fetch.sql with (cluster, topic, partition, offset, max_bytes):
\* the partition's records with id >= offset, ordered by id, up to the row
\* cap of max_bytes; each row carries the bytes of its key and value
record_fetch(name, partition, offset, max_bytes) ==
    WithinBytes(FromOffset(name, partition, offset), max_bytes)

\* a loop over the rows without the break
NeverBreaks(bytes, min_bytes) == FALSE

\* "if bytes > (min_bytes as i64) { break; }"
LoopBreaks(bytes, min_bytes) == bytes > min_bytes

\* the timestamp_delta of a record of the loop: the column is read from
\* the first row, whatever the record
timestamp_delta(first, row, base_timestamp) ==
    to_timestamp(first.timestamp) - base_timestamp

\* the record query, on a connection without a transaction: it sees what
\* is committed when it runs.  An error returns with `?`; without a row
\* (as for a topic that does not exist) fetch builds the empty batch;
\* otherwise the loop over the rows begins.
FetchRecords(name, partition, offset, min_bytes, max_bytes, fails) ==
    /\ fx.pc = "idle"
    /\ LET rows == record_fetch(name, partition, offset, max_bytes)
           stored == FromOffset(name, partition, offset)
           batch == [topic |-> name, partition |-> partition, offset |-> offset,
                     min_bytes |-> min_bytes, max_bytes |-> max_bytes,
                     kind |-> "ok", ids |-> <<>>,
                     base_timestamp |-> IF rows = <<>> THEN 0
                                        ELSE to_timestamp(rows[1].timestamp),
                     timestamp_deltas |-> <<>>,
                     stored |-> [i \in 1..Len(stored) |-> stored[i].id],
                     rows |-> rows, headers |-> <<>>]
       IN IF fails
          THEN /\ fetched' = [NothingFetched EXCEPT
                                 !.topic = name, !.partition = partition,
                                 !.offset = offset, !.min_bytes = min_bytes,
                                 !.max_bytes = max_bytes, !.kind = "err"]
               /\ fx' = fx
          ELSE IF rows = <<>>
          THEN /\ fetched' = batch
               /\ fx' = fx
          ELSE /\ fx' = [pc |-> "headers", todo |-> rows, bytes |-> 0,
                         batch |-> batch]
               /\ fetched' = fetched
    /\ UNCHANGED <<storageVars, groupVars, cacheVars, txnVars, topicVars, offsetVars,
                   producerVars, schemaVars, metadataVars, avroVars, recordsVars>>

\* one turn of the loop over the rows: the record joins the batch, its
\* bytes are added, its headers are read by a statement of their own, which
\* sees what is committed by then, and their bytes are added; the loop
\* ends after the last row or once bytes > min_bytes, and fetch returns
\* the batch
FetchHeaders ==
    /\ fx.pc = "headers"
    /\ LET r == Head(fx.todo)
           first == fx.batch.rows[1]
           headers == header_fetch(fx.batch.topic, fx.batch.partition, r.id)
           bytes == fx.bytes + KeyBytes + HeaderBytes * headers
           batch == [fx.batch EXCEPT
                        !.ids = @ \o <<r.id>>,
                        !.timestamp_deltas =
                            @ \o <<timestamp_delta(first, r, fx.batch.base_timestamp)>>,
                        !.headers = @ \o <<headers>>]
       IN IF LoopBreaks(bytes, fx.batch.min_bytes) \/ Tail(fx.todo) = <<>>
          THEN /\ fetched' = batch
               /\ fx' = IdleFetch
          ELSE /\ fx' = [fx EXCEPT !.todo = Tail(@), !.bytes = bytes,
                                   !.batch = batch]
               /\ fetched' = fetched
    /\ UNCHANGED <<storageVars, groupVars, cacheVars, txnVars, topicVars, offsetVars,
                   producerVars, schemaVars, metadataVars, avroVars, recordsVars>>

\* an error at a `?` inside the loop (a try_get, the header query): fetch
\* returns Err
FetchFail ==
    /\ fx.pc = "headers"
    /\ fetched' = [NothingFetched EXCEPT
                      !.topic = fx.batch.topic, !.partition = fx.batch.partition,
                      !.offset = fx.batch.offset, !.min_bytes = fx.batch.min_bytes,
                      !.max_bytes = fx.batch.max_bytes, !.kind = "err"]
    /\ fx' = IdleFetch
    /\ UNCHANGED <<storageVars, groupVars, cacheVars, txnVars, topicVars, offsetVars,
                   producerVars, schemaVars, metadataVars, avroVars, recordsVars>>

FetchArgs ==
    [name : TopicNames, partition : Partitions, offset : 0..MaxOffset,
     min_bytes : 0..MaxMinBytes, max_bytes : {KeyBytes, LargeMaxBytes}]

fetch ==
    \/ \E a \in FetchArgs, fails \in BOOLEAN :
          FetchRecords(a.name, a.partition, a.offset, a.min_bytes, a.max_bytes, fails)
    \/ FetchHeaders
    \/ FetchFail

\* ------------------------------------------ Postgres::txn_add_partitions
Transactions == {"x"}

NoTxnResponse ==
    [op |-> "none", transaction |-> "x", committed |-> FALSE, kind |-> "none",
     ended |-> {}]

\* pg/txn_add_partition.sql with (cluster, topic, transaction, partition)
txn_add_partition(transaction, tid, partition) ==
    [transaction |-> transaction, topic |-> tid, partition |-> partition]

\* the transaction of txn_add_partitions is dropped at the return without
\* a commit: the rows its statements inserted are rolled back
TxnPartitionsRolledBack(rows) == txn_topition

\* VersionZeroToThree: one statement per partition in a transaction, then
\* Ok with ErrorCode::None for every partition
txn_add_partitions(transaction, name, partitions) ==
    /\ \E t \in TopicRows(name) :
        /\ txn_topition' = TxnPartitionsRolledBack(
                {txn_add_partition(transaction, t.id, p) : p \in partitions})
        /\ txnLog' = txnLog \cup
             {[transaction |-> transaction, topic |-> t.id, partition |-> w.partition,
               high |-> w.high] :
                 w \in {v \in watermark : v.topic = t.id /\ v.partition \in partitions
                          /\ ~\E x \in txnLog : x.transaction = transaction
                                /\ x.topic = t.id /\ x.partition = v.partition}}
    /\ txnResponse' = [op |-> "txn_add_partitions", transaction |-> transaction,
                       committed |-> FALSE, kind |-> "None", ended |-> {}]
    /\ UNCHANGED <<storageVars, groupVars, cacheVars, fetchVars, topicVars, offsetVars,
                   producerVars, schemaVars, metadataVars, avroVars, recordsVars>>

\* ------------------------------------------------------ Postgres::txn_end
\* txn_end logs its arguments and returns ErrorCode::None
txn_end(transaction, committed) ==
    /\ txnLog' = {x \in txnLog : x.transaction # transaction}
    /\ txnResponse' = [op |-> "txn_end", transaction |-> transaction,
                       committed |-> committed, kind |-> "None",
                       ended |-> {x \in txnLog : x.transaction = transaction}]
    /\ UNCHANGED txn_topition
    /\ UNCHANGED <<storageVars, groupVars, cacheVars, fetchVars, topicVars, offsetVars,
                   producerVars, schemaVars, metadataVars, avroVars, recordsVars>>

\* ------------------------------------------------ Postgres::update_group
\* Version::e_tag is None
NoEtag == -1

\* Version::e_tag is a string that is no uuid
Malformed == -2

\* a uuid that this store never generated
ForeignUuid == 0

NoVersion == [some |-> FALSE, e_tag |-> NoEtag]

Versions(upto) ==
    {NoVersion} \cup {[some |-> TRUE, e_tag |-> e] : e \in {NoEtag, Malformed} \cup 0..upto}

NoOutcome == [kind |-> "none", e_tag |-> NoEtag, detail |-> 0]

IdleGroupSession ==
    [pc |-> "idle", grp |-> "g", detail |-> 0, version |-> NoVersion,
     existing_e_tag |-> NoEtag, new_e_tag |-> NoEtag, write |-> "none",
     outcome |-> NoOutcome]

GroupRows(grp) == {r \in consumer_group : r.grp = grp}

\* another session's transaction has written the group's row (or its
\* unique key) and not yet ended
GroupLockedByOther(s, grp) ==
    \E o \in Sessions \ {s} : gx[o].write # "none" /\ gx[o].grp = grp

\* pg/consumer_group_insert.sql with (cluster, group, existing_e_tag,
\* new_e_tag, detail): the row is inserted when the group has none, updated
\* when its e_tag is existing_e_tag, and otherwise no row is returned
consumer_group_insert(rows, existing_e_tag) ==
    IF rows = {} THEN "insert"
    ELSE IF \E r \in rows : r.e_tag = existing_e_tag THEN "update"
    ELSE "none"

\* the e-tag that stands for the stored one in the statement: the presented
\* version's, or a fresh uuid when no version is presented
ExistingETag(version, fresh) == IF version.some THEN version.e_tag ELSE fresh

\* the Version returned on success carries the e-tag the presented version had
UpdatedVersionIsPresented(existing_e_tag, new_e_tag, detail) ==
    [kind |-> "ok", e_tag |-> existing_e_tag, detail |-> detail]

\* the Version returned on success: the e_tag column of the returned row
UpdatedVersion(existing_e_tag, new_e_tag, detail) ==
    [kind |-> "ok", e_tag |-> new_e_tag, detail |-> detail]

\* Outdated carrying the version the caller presented
OutdatedOfPresented(row, version) ==
    [kind |-> "outdated", e_tag |-> version.e_tag, detail |-> row.detail]

\* UpdateError::Outdated {current, version} of the row read by
\* pg/consumer_group_detail.sql
OutdatedOf(row, version) ==
    [kind |-> "outdated", e_tag |-> row.e_tag, detail |-> row.detail]

\* connection, transaction, prepare; then the presented version's e-tag is
\* read: a version without e-tag is MissingEtag, a string that is no uuid an
\* error of Uuid::from_str, both returned before any statement runs
UpdateGroupBegin(s, grp, detail, version) ==
    /\ gx[s].pc = "idle"
    /\ nextUuid + 2 <= MaxUuids
    /\ IF version.some /\ version.e_tag \in {NoEtag, Malformed}
       THEN /\ groupResponse' =
                 [session |-> s,
                  kind |-> IF version.e_tag = NoEtag THEN "MissingEtag" ELSE "Uuid",
                  e_tag |-> NoEtag, detail |-> 0]
            /\ UNCHANGED <<gx, nextUuid>>
       ELSE /\ gx' = [gx EXCEPT ![s] = [IdleGroupSession EXCEPT
                        !.pc = "upsert", !.grp = grp, !.detail = detail,
                        !.version = version,
                        !.existing_e_tag = ExistingETag(version, nextUuid + 1),
                        !.new_e_tag = IF version.some THEN nextUuid + 1
                                      ELSE nextUuid + 2]]
            /\ nextUuid' = IF version.some THEN nextUuid + 1 ELSE nextUuid + 2
            /\ UNCHANGED groupResponse
    /\ UNCHANGED consumer_group
    /\ UNCHANGED <<storageVars, cacheVars, moreVars>>

\* consumer_group_insert: a returned row makes the outcome Ok(Version)
UpdateGroupUpsert(s) ==
    /\ gx[s].pc = "upsert"
    /\ ~GroupLockedByOther(s, gx[s].grp)
    /\ LET write == consumer_group_insert(GroupRows(gx[s].grp), gx[s].existing_e_tag)
       IN IF write = "none"
          THEN gx' = [gx EXCEPT ![s].pc = "detail"]
          ELSE gx' = [gx EXCEPT ![s].pc = "commit", ![s].write = write,
                        ![s].outcome = UpdatedVersion(gx[s].existing_e_tag,
                                                      gx[s].new_e_tag, gx[s].detail)]
    /\ UNCHANGED <<consumer_group, nextUuid, groupResponse>>
    /\ UNCHANGED <<storageVars, cacheVars, moreVars>>

\* no row returned: consumer_group_detail reads the stored row and the
\* outcome is Outdated
UpdateGroupDetail(s) ==
    /\ gx[s].pc = "detail"
    /\ \E row \in GroupRows(gx[s].grp) :
        gx' = [gx EXCEPT ![s].pc = "commit",
                  ![s].outcome = OutdatedOf(row, gx[s].version)]
    /\ UNCHANGED <<consumer_group, nextUuid, groupResponse>>
    /\ UNCHANGED <<storageVars, cacheVars, moreVars>>

\* tx.commit(), then the outcome is returned
UpdateGroupCommit(s) ==
    /\ gx[s].pc = "commit"
    /\ consumer_group' =
         IF gx[s].write = "none" THEN consumer_group
         ELSE (consumer_group \ GroupRows(gx[s].grp)) \cup
              {[grp |-> gx[s].grp, e_tag |-> gx[s].new_e_tag, detail |-> gx[s].detail]}
    /\ groupResponse' = [session |-> s, kind |-> gx[s].outcome.kind,
                         e_tag |-> gx[s].outcome.e_tag,
                         detail |-> gx[s].outcome.detail]
    /\ gx' = [gx EXCEPT ![s] = IdleGroupSession]
    /\ UNCHANGED nextUuid
    /\ UNCHANGED <<storageVars, cacheVars, moreVars>>

\* an error of a statement or of the commit: the transaction rolls back
UpdateGroupFail(s) ==
    /\ gx[s].pc \in {"upsert", "detail", "commit"}
    /\ groupResponse' = [session |-> s, kind |-> "Backend", e_tag |-> NoEtag,
                         detail |-> 0]
    /\ gx' = [gx EXCEPT ![s] = IdleGroupSession]
    /\ UNCHANGED <<consumer_group, nextUuid>>
    /\ UNCHANGED <<storageVars, cacheVars, moreVars>>

update_group ==
    \/ \E s \in Sessions, grp \in Groups, detail \in Details,
          version \in Versions(nextUuid) : UpdateGroupBegin(s, grp, detail, version)
    \/ \E s \in Sessions : UpdateGroupUpsert(s)
    \/ \E s \in Sessions : UpdateGroupDetail(s)
    \/ \E s \in Sessions : UpdateGroupCommit(s)
    \/ \E s \in Sessions : UpdateGroupFail(s)

GroupInit ==
    /\ consumer_group = {}
    /\ nextUuid = 0
    /\ gx = [s \in Sessions |-> IdleGroupSession]
    /\ groupResponse = [session |-> 0, kind |-> "none", e_tag |-> NoEtag, detail |-> 0]

\* ------------------------------------------------ dynostore::metadata::Cache
NoEntry == [present |-> FALSE, e_tag |-> NoEtag, tagged_at |-> 0]

NoObject == [present |-> FALSE, e_tag |-> NoEtag]

NoResult == [kind |-> "none", e_tag |-> NoEtag]

IdleTask ==
    [pc |-> "idle", op |-> "none", path |-> "p", if_none_match |-> NoEtag,
     result |-> NoResult, gets |-> 0, expired |-> FALSE, guard |-> FALSE]

\* a MutexGuard that is still alive after its block
held(guard) == guard

\* the MutexGuard of entries.lock() goes out of scope at the end of the
\* `if let Ok(mut guard)` block and the mutex is unlocked
drop(guard) == FALSE

\* self.entries.lock(): the mutex is taken when no task holds its guard
entries_lock == \A u \in DOMAIN cx : ~cx[u].guard

\* Duration::as_millis: whole milliseconds, the rest dropped
as_millis(duration) == duration \div TicksPerMilli

\* an entry is kept up to and including the retention
RetainedAtRetention(entry, at) ==
    /\ at >= entry.tagged_at
    /\ as_millis(at - entry.tagged_at) <= as_millis(retention)

\* the closure of retain in evict: duration_since is Ok and the elapsed
\* milliseconds are below the retention's
Retained(entry, at) ==
    /\ at >= entry.tagged_at
    /\ as_millis(at - entry.tagged_at) < as_millis(retention)

evict(es, at) ==
    [p \in CopyPaths |-> IF es[p].present /\ Retained(es[p], at) THEN es[p] ELSE NoEntry]

\* CacheEntry::from(&PutResult) and CacheEntry::from(&GetResult)
CacheEntryFrom(e_tag, at) == [present |-> TRUE, e_tag |-> e_tag, tagged_at |-> at]

\* the test of get_opts: an entry with an e-tag, an if_none_match, both equal
Hit(entry, if_none_match) ==
    /\ entry.present
    /\ entry.e_tag # NoEtag
    /\ if_none_match # NoEtag
    /\ entry.e_tag = if_none_match

CacheReturn(t, kind, e_tag, hit) ==
    /\ cacheResponse' = [task |-> t, op |-> cx[t].op, path |-> cx[t].path,
                         kind |-> kind, e_tag |-> e_tag, hit |-> hit,
                         gets |-> cx[t].gets, expired |-> cx[t].expired]
    /\ cx' = [cx EXCEPT ![t] = IdleTask]

\* get_opts up to the call of the wrapped store: lock, evict, then either
\* the hit, which refreshes tagged_at and returns NotModified, or the miss
GetBegin(t, path, if_none_match) ==
    /\ cx[t].pc = "idle"
    /\ entries_lock
    /\ cacheCalls < MaxCacheCalls
    /\ cacheCalls' = cacheCalls + 1
    /\ LET kept == evict(entries, now)
       IN IF Hit(kept[path], if_none_match)
          THEN /\ entries' = [kept EXCEPT ![path].tagged_at = now]
               /\ cacheResponse' = [task |-> t, op |-> "get", path |-> path,
                                    kind |-> "NotModified", e_tag |-> if_none_match,
                                    hit |-> TRUE, gets |-> 0, expired |-> FALSE]
               /\ UNCHANGED cx
          ELSE /\ entries' = kept
               /\ cx' = [cx EXCEPT ![t] = [IdleTask EXCEPT !.pc = "backend",
                            !.op = "get", !.path = path,
                            !.if_none_match = if_none_match,
                            !.guard = drop(TRUE),
                            !.expired = /\ Hit(entries[path], if_none_match)
                                        /\ now - entries[path].tagged_at >= retention]]
               /\ UNCHANGED cacheResponse
    /\ UNCHANGED <<now, retention, object_store, nextTag, getCount>>
    /\ UNCHANGED listResult
    /\ UNCHANGED <<storageVars, groupVars, moreVars>>

\* the wrapped store's get_opts: NotFound, NotModified when if_none_match is
\* the object's e-tag, the object otherwise, or a fault
GetBackend(t, fault) ==
    /\ cx[t].pc = "backend" /\ cx[t].op = "get"
    /\ getCount' = getCount + 1
    /\ LET object == object_store[cx[t].path]
           result ==
               IF fault THEN [kind |-> "Generic", e_tag |-> NoEtag]
               ELSE IF ~object.present THEN [kind |-> "NotFound", e_tag |-> NoEtag]
               ELSE IF object.e_tag # NoEtag /\ object.e_tag = cx[t].if_none_match
                    THEN [kind |-> "NotModified", e_tag |-> NoEtag]
               ELSE [kind |-> "ok", e_tag |-> object.e_tag]
       IN cx' = [cx EXCEPT ![t].pc = "finish", ![t].result = result,
                           ![t].gets = cx[t].gets + 1]
    /\ UNCHANGED <<now, retention, entries, object_store, nextTag, cacheCalls,
                   cacheResponse>>
    /\ UNCHANGED listResult
    /\ UNCHANGED <<storageVars, groupVars, moreVars>>

\* get_opts after the wrapped store answered: Ok inserts the entry without
\* evicting, an error evicts and removes the path's entry
GetFinish(t) ==
    /\ cx[t].pc = "finish" /\ cx[t].op = "get"
    /\ entries_lock
    /\ entries' =
         IF cx[t].result.kind = "ok"
         THEN [entries EXCEPT ![cx[t].path] = CacheEntryFrom(cx[t].result.e_tag, now)]
         ELSE [evict(entries, now) EXCEPT ![cx[t].path] = NoEntry]
    /\ CacheReturn(t, cx[t].result.kind, cx[t].result.e_tag, FALSE)
    /\ UNCHANGED <<now, retention, object_store, nextTag, getCount, cacheCalls>>
    /\ UNCHANGED listResult
    /\ UNCHANGED <<storageVars, groupVars, moreVars>>

get_opts ==
    \/ \E t \in Tasks, path \in Paths, if_none_match \in {NoEtag} \cup 1..nextTag :
          GetBegin(t, path, if_none_match)
    \/ \E t \in Tasks, fault \in BOOLEAN : GetBackend(t, fault)
    \/ \E t \in Tasks : GetFinish(t)

\* the wrapped store's put_opts: the object is stored under a new e-tag, or
\* under none when the store has no e-tags, or the put fails
PutBackend(t, path, outcome) ==
    /\ cx[t].pc = "idle"
    /\ cacheCalls < MaxCacheCalls
    /\ cacheCalls' = cacheCalls + 1
    /\ outcome = "tagged" => nextTag < MaxTags
    /\ nextTag' = IF outcome = "tagged" THEN nextTag + 1 ELSE nextTag
    /\ object_store' =
         IF outcome = "tagged"
         THEN [object_store EXCEPT ![path] = [present |-> TRUE, e_tag |-> nextTag + 1]]
         ELSE IF outcome = "untagged"
         THEN [object_store EXCEPT ![path] = [present |-> TRUE, e_tag |-> NoEtag]]
         ELSE object_store
    /\ cx' = [cx EXCEPT ![t] = [IdleTask EXCEPT !.pc = "finish", !.op = "put",
                 !.path = path,
                 !.result = IF outcome = "tagged"
                            THEN [kind |-> "ok", e_tag |-> nextTag + 1]
                            ELSE IF outcome = "untagged"
                            THEN [kind |-> "ok", e_tag |-> NoEtag]
                            ELSE [kind |-> "Generic", e_tag |-> NoEtag]]]
    /\ UNCHANGED <<now, retention, entries, getCount, cacheResponse>>
    /\ UNCHANGED listResult
    /\ UNCHANGED <<storageVars, groupVars, moreVars>>

\* put_opts after the wrapped store answered: Ok evicts and inserts the
\* entry, an error evicts and removes the path's entry
PutFinish(t) ==
    /\ cx[t].pc = "finish" /\ cx[t].op = "put"
    /\ entries_lock
    /\ entries' =
         IF cx[t].result.kind = "ok"
         THEN [evict(entries, now) EXCEPT
                  ![cx[t].path] = CacheEntryFrom(cx[t].result.e_tag, now)]
         ELSE [evict(entries, now) EXCEPT ![cx[t].path] = NoEntry]
    /\ CacheReturn(t, cx[t].result.kind, cx[t].result.e_tag, FALSE)
    /\ UNCHANGED <<now, retention, object_store, nextTag, getCount, cacheCalls>>
    /\ UNCHANGED listResult
    /\ UNCHANGED <<storageVars, groupVars, moreVars>>

put_opts ==
    \/ \E t \in Tasks, path \in Paths, outcome \in {"tagged", "untagged", "error"} :
          PutBackend(t, path, outcome)
    \/ \E t \in Tasks : PutFinish(t)

\* the wrapped store's delete
DeleteBackend(t, path, fault) ==
    /\ cx[t].pc = "idle"
    /\ cacheCalls < MaxCacheCalls
    /\ cacheCalls' = cacheCalls + 1
    /\ object_store' =
         IF fault \/ ~object_store[path].present THEN object_store
         ELSE [object_store EXCEPT ![path] = NoObject]
    /\ cx' = [cx EXCEPT ![t] = [IdleTask EXCEPT !.pc = "finish", !.op = "delete",
                 !.path = path,
                 !.result = IF fault THEN [kind |-> "Generic", e_tag |-> NoEtag]
                            ELSE IF ~object_store[path].present
                            THEN [kind |-> "NotFound", e_tag |-> NoEtag]
                            ELSE [kind |-> "ok", e_tag |-> NoEtag]]]
    /\ UNCHANGED <<now, retention, entries, nextTag, getCount, cacheResponse>>
    /\ UNCHANGED listResult
    /\ UNCHANGED <<storageVars, groupVars, moreVars>>

\* guard.remove(location) in the inspect closure of delete
EntryRemoved(es, path) == [es EXCEPT ![path] = NoEntry]

\* delete after the wrapped store answered: Ok removes the path's entry, an
\* error leaves the entries alone
DeleteFinish(t) ==
    /\ cx[t].pc = "finish" /\ cx[t].op = "delete"
    /\ cx[t].result.kind = "ok" => entries_lock
    /\ entries' =
         IF cx[t].result.kind = "ok"
         THEN EntryRemoved(entries, cx[t].path)
         ELSE entries
    /\ CacheReturn(t, cx[t].result.kind, cx[t].result.e_tag, FALSE)
    /\ UNCHANGED <<now, retention, object_store, nextTag, getCount, cacheCalls>>
    /\ UNCHANGED listResult
    /\ UNCHANGED <<storageVars, groupVars, moreVars>>

delete ==
    \/ \E t \in Tasks, path \in Paths, fault \in BOOLEAN : DeleteBackend(t, path, fault)
    \/ \E t \in Tasks : DeleteFinish(t)

\* a copy_if_not_exists that takes a cached entry of the destination for
\* the object
CopyResultCached(from, to, if_not_exists, fault) ==
    IF fault THEN "Generic"
    ELSE IF ~object_store[from].present THEN "NotFound"
    ELSE IF if_not_exists /\ entries[to].present THEN "AlreadyExists"
    ELSE "ok"

\* the wrapped store's copy and copy_if_not_exists: NotFound without the
\* source, AlreadyExists when copy_if_not_exists finds the destination,
\* otherwise the destination holds the source's content as a new object,
\* under a new e-tag when the store has e-tags
CopyResult(from, to, if_not_exists, fault) ==
    IF fault THEN "Generic"
    ELSE IF ~object_store[from].present THEN "NotFound"
    ELSE IF if_not_exists /\ object_store[to].present THEN "AlreadyExists"
    ELSE "ok"

\* Cache::copy and Cache::copy_if_not_exists: the call is handed to the
\* wrapped store and its answer returned; the entries are not touched
CopyThrough(t, from, to, if_not_exists, fault) ==
    /\ cx[t].pc = "idle"
    /\ cacheCalls < MaxCacheCalls
    /\ cacheCalls' = cacheCalls + 1
    /\ LET kind == CopyResult(from, to, if_not_exists, fault)
           tagged == object_store[from].e_tag # NoEtag
       IN /\ (kind = "ok" /\ tagged) => nextTag < MaxTags
          /\ nextTag' = IF kind = "ok" /\ tagged THEN nextTag + 1 ELSE nextTag
          /\ object_store' =
               IF kind = "ok"
               THEN [object_store EXCEPT ![to] =
                        [present |-> TRUE,
                         e_tag |-> IF tagged THEN nextTag + 1 ELSE NoEtag]]
               ELSE object_store
          /\ cacheResponse' = [task |-> t,
                               op |-> IF if_not_exists THEN "copy_if_not_exists"
                                      ELSE "copy",
                               path |-> to, kind |-> kind, e_tag |-> NoEtag,
                               hit |-> FALSE, gets |-> 0, expired |-> FALSE]
    /\ UNCHANGED <<now, retention, entries, getCount, cx>>
    /\ UNCHANGED listResult
    /\ UNCHANGED <<storageVars, groupVars, moreVars>>

copy(t) ==
    \E from \in CopyPaths : \E to \in CopyPaths \ {from}, fault \in BOOLEAN :
        CopyThrough(t, from, to, FALSE, fault)

copy_if_not_exists(t) ==
    \E from \in CopyPaths : \E to \in CopyPaths \ {from}, fault \in BOOLEAN :
        CopyThrough(t, from, to, TRUE, fault)

\* ---------------------------------- Cache::list, list_with_delimiter
\* Option<&Path>::None
NoPrefix == ""

NothingListedYet == [op |-> "none", prefix |-> NoPrefix, kind |-> "none", objects |-> {}]

\* the wrapped store's listing: every object without a prefix, the objects
\* below the prefix otherwise; the paths here have one segment, and none
\* lies below another
ObjectsUnder(prefix) ==
    IF prefix = NoPrefix THEN {p \in CopyPaths : object_store[p].present}
    ELSE {}

\* Cache::list and Cache::list_with_delimiter: the call is handed to the
\* wrapped store and its answer returned; list returns the store's stream as
\* it is
ListThrough(t, op, prefix, fault) ==
    /\ cx[t].pc = "idle"
    /\ cacheCalls < MaxCacheCalls
    /\ cacheCalls' = cacheCalls + 1
    /\ listResult' = IF fault
                     THEN [op |-> op, prefix |-> prefix, kind |-> "Generic",
                           objects |-> {}]
                     ELSE [op |-> op, prefix |-> prefix, kind |-> "ok",
                           objects |-> ObjectsUnder(prefix)]
    /\ UNCHANGED <<now, retention, entries, object_store, nextTag, getCount, cx,
                   cacheResponse>>
    /\ UNCHANGED <<storageVars, groupVars, moreVars>>

list(t) ==
    \E prefix \in {NoPrefix} \cup CopyPaths, fault \in BOOLEAN :
        ListThrough(t, "list", prefix, fault)

list_with_delimiter(t) ==
    \E prefix \in {NoPrefix} \cup CopyPaths, fault \in BOOLEAN :
        ListThrough(t, "list_with_delimiter", prefix, fault)

\* time passes
Tick ==
    /\ now < MaxTime
    /\ now' = now + 1
    /\ UNCHANGED <<retention, entries, object_store, nextTag, getCount,
                   cacheCalls, cx, cacheResponse>>
    /\ UNCHANGED listResult
    /\ UNCHANGED <<storageVars, groupVars, moreVars>>

\* Cache::new(object_store, retention)
CacheNew(duration) ==
    /\ now = 0
    /\ retention = duration
    /\ entries = [p \in CopyPaths |-> NoEntry]
    /\ object_store = [p \in CopyPaths |-> NoObject]
    /\ nextTag = 0
    /\ getCount = 0
    /\ cacheCalls = 0
    /\ cx = [t \in Tasks |-> IdleTask]
    /\ cacheResponse = [task |-> 0, op |-> "none", path |-> "p", kind |-> "none",
                        e_tag |-> NoEtag, hit |-> FALSE, gets |-> 0,
                        expired |-> FALSE]
    /\ listResult = NothingListedYet

CacheInit == \E duration \in 0..MaxRetention : CacheNew(duration)

\* ------------------------------------------------------------ storage
StorageInit ==
    /\ topic = {}
    /\ watermark = {}
    /\ record = <<>>
    /\ header = <<>>
    /\ nextTopicId = 0
    /\ px = [s \in Sessions |-> IdleSession]
    /\ calls = 0
    /\ response = NoResponse
    /\ history = {}

\* session 1 is a client that makes one call at a time, a produce, a
\* delete_topic or a delete_records of one partition of a topic that is
\* there, while session 2 produces batches of records without headers
StorageNext ==
    \/ /\ px[1].pc = "idle" => (dx[1].pc = "idle" /\ rx.pc = "idle")
       /\ ProduceBy(1)
    \/ \E name \in TopicNames, partition \in Partitions, batch \in Batches :
          /\ \A i \in 1..Len(batch) : batch[i] = 0
          /\ ProduceBegin(2, name, partition, batch)
    \/ ProduceSelect(2)
    \/ ProduceInsert(2, FALSE)
    \/ ProduceWatermark(2)
    \/ ProduceCommit(2)
    \/ ProduceFail(2)
    \/ \E name \in TopicNames, n \in 1..MaxPartitions, v \in BOOLEAN :
          create_topic(name, n, 1, <<>>, FALSE, v)
    \/ /\ px[1].pc = "idle" /\ rx.pc = "idle"
       /\ \E name \in TopicNames :
             /\ TopicRows(name) # {}
             /\ DeleteTopicSelect(1, [by |-> "name", name |-> name, id |-> 0], FALSE)
    \/ DeleteTopicStatement(1)
    \/ DeleteTopicCommit(1)
    \/ /\ px[1].pc = "idle" /\ dx[1].pc = "idle"
       /\ \E name \in TopicNames, partitions \in DeleteRecordsRequests :
             /\ TopicRows(name) # {}
             /\ Len(partitions) = 1
             /\ DeleteRecordsBegin(name, partitions)
    \/ DeleteRecordsExecute
    \/ \E last_value \in SequenceValues : DeleteRecordsSelect(last_value, FALSE)

\* ------------------------------------------------- avro values and json
\* Values, JSON values and schemas are records of one shape:
\*   kind   the variant (Value), the JSON type, or the schema's type
\*   n      the number, the boolean as 0 or 1, the ordinal of an enum symbol,
\*          the uuid; NotANumber for a float that is NaN
\*   bytes  the bytes of a string, of a byte array, of an enum's symbol
\*   items  the elements of an array, the entries [k, v] of a map by key,
\*          the fields [k, v] of a record in order
Val(kind, n, bytes, items) == [kind |-> kind, n |-> n, bytes |-> bytes, items |-> items]

NotANumber == 1000

\* a byte that is no UTF-8 and the bytes of U+FFFD that replace it
InvalidByte == 255
ReplacementCharacter == <<239, 191, 189>>

Symbols == <<<<65>>, <<66>>>>

LogicalTypes ==
    {"Date", "TimeMillis", "TimeMicros", "TimestampMillis", "TimestampMicros",
     "TimestampNanos"}

\* the schemas of the round trip, by the name of their type
AvroSchemas ==
    {"Null", "Boolean", "Int", "Long", "Float", "Double", "Bytes", "String",
     "Array", "Map", "Record", "Enum", "Uuid"} \cup LogicalTypes

\* the schema of the elements of an array, of the values of a map and of
\* the fields of a record
ItemSchema(schema, k) ==
    IF schema = "Record" /\ k = 2 THEN "String" ELSE "Int"

\* the Values a Reader yields under a schema, within the bounds
ValuesOf(schema) ==
    IF schema = "Null" THEN {Val("Null", 0, <<>>, <<>>)}
    ELSE IF schema = "Boolean" THEN {Val("Boolean", b, <<>>, <<>>) : b \in 0..1}
    ELSE IF schema \in {"Int", "Long"} \cup LogicalTypes
         THEN {Val(schema, n, <<>>, <<>>) : n \in 1..MaxNumber}
    ELSE IF schema \in {"Float", "Double"}
         THEN {Val(schema, n, <<>>, <<>>) : n \in {1, NotANumber}}
    ELSE IF schema = "Bytes"
         THEN {Val("Bytes", 0, b, <<>>) : b \in {<<>>, <<97>>, <<InvalidByte>>}}
    ELSE IF schema = "String"
         THEN {Val("String", 0, b, <<>>) : b \in {<<>>, <<97>>}}
    ELSE IF schema = "Enum"
         THEN {Val("Enum", i, Symbols[i + 1], <<>>) : i \in 0..1}
    ELSE IF schema = "Uuid" THEN {Val("Uuid", n, <<>>, <<>>) : n \in 1..MaxNumber}
    ELSE IF schema = "Array"
         THEN {Val("Array", 0, <<>>, [i \in 1..len |->
                   [k |-> i, v |-> Val("Int", len - i + 1, <<>>, <<>>)]])
               : len \in 0..MaxItems}
    ELSE IF schema = "Map"
         THEN {Val("Map", 0, <<>>, [i \in 1..len |->
                   [k |-> i, v |-> Val("Int", i, <<>>, <<>>)]])
               : len \in 0..MaxItems}
    ELSE {Val("Record", 0, <<>>,
              <<[k |-> 1, v |-> Val("Int", n, <<>>, <<>>)],
                [k |-> 2, v |-> Val("String", 0, <<97>>, <<>>)]>>)
          : n \in 1..MaxNumber}

\* the orders in which a HashMap can hand out its entries
Orders(items) ==
    {f \in [1..Len(items) -> 1..Len(items)] :
        \A i \in DOMAIN f, j \in DOMAIN f : f[i] = f[j] => i = j}

Ordered(items, order) == [i \in 1..Len(items) |-> items[order[i]]]

\* the entries of a map sorted by key, as a BTreeMap keeps them
RECURSIVE SortedByKey(_)
SortedByKey(items) ==
    IF items = <<>> THEN <<>>
    ELSE LET least == CHOOSE i \in DOMAIN items :
                         \A j \in DOMAIN items : items[i].k <= items[j].k
         IN <<items[least]>> \o
            SortedByKey([i \in 1..(Len(items) - 1) |->
                            IF i < least THEN items[i] ELSE items[i + 1]])

\* schema_write: the datum in the binary encoding of its schema; the
\* entries of a map are written in the order the HashMap hands them out
schema_write(schema, value, order) ==
    IF value.kind = "Map" THEN [value EXCEPT !.items = Ordered(value.items, order)]
    ELSE value

\* Reader::with_schema(schema, encoded).next(): the datum as a Value, the
\* entries of a map in a HashMap
reader(schema, wire) ==
    IF wire.kind = "Map" THEN [wire EXCEPT !.items = SortedByKey(wire.items)]
    ELSE wire

Converted(kind, json) == [kind |-> kind, json |-> json]

NotConverted == Converted("none", Val("Null", 0, <<>>, <<>>))

NothingEncoded == [schema |-> "Null", wire |-> Val("none", 0, <<>>, <<>>)]

\* String::from_utf8_lossy: each byte that is no UTF-8 becomes U+FFFD
RECURSIVE from_utf8_lossy(_)
from_utf8_lossy(bytes) ==
    IF bytes = <<>> THEN <<>>
    ELSE (IF bytes[1] = InvalidByte THEN ReplacementCharacter ELSE <<bytes[1]>>)
         \o from_utf8_lossy(Tail(bytes))

\* Uuid::to_string and Uuid::parse_str, the string being "u" and the uuid
uuid_to_string(uuid) == <<117, uuid>>

uuid_parse_str(bytes) ==
    IF Len(bytes) = 2 /\ bytes[1] = 117 THEN bytes[2] ELSE NotANumber

\* the first conversion of a sequence that is not Ok, or none
FirstFailure(results) ==
    IF \E i \in DOMAIN results : results[i].kind # "Ok"
    THEN results[CHOOSE i \in DOMAIN results :
                    /\ results[i].kind # "Ok"
                    /\ \A j \in 1..(i - 1) : results[j].kind = "Ok"].kind
    ELSE "Ok"

\* json_value: the Value as JSON; the logical types of dates and times are
\* todo!() and panic
RECURSIVE json_value(_)
json_value(value) ==
    IF value.kind \in {"Null", "Boolean", "Int", "Long"}
    THEN Converted("Ok", Val(IF value.kind \in {"Int", "Long"} THEN "Number"
                             ELSE value.kind, value.n, <<>>, <<>>))
    ELSE IF value.kind \in {"Float", "Double"}
    THEN IF value.n = NotANumber THEN Converted("AvroToJson", value)
         ELSE Converted("Ok", Val("Number", value.n, <<>>, <<>>))
    ELSE IF value.kind = "Bytes"
    THEN Converted("Ok", Val("String", 0, from_utf8_lossy(value.bytes), <<>>))
    ELSE IF value.kind \in {"String", "Enum"}
    THEN Converted("Ok", Val("String", 0, value.bytes, <<>>))
    ELSE IF value.kind = "Uuid"
    THEN Converted("Ok", Val("String", 0, uuid_to_string(value.n), <<>>))
    ELSE IF value.kind \in {"Array", "Map", "Record"}
    THEN LET results == [i \in DOMAIN value.items |-> json_value(value.items[i].v)]
             failure == FirstFailure(results)
         IN IF failure # "Ok" THEN Converted(failure, value)
            ELSE Converted("Ok",
                   Val(IF value.kind = "Array" THEN "Array" ELSE "Object", 0, <<>>,
                       LET items == [i \in DOMAIN value.items |->
                                        [k |-> value.items[i].k,
                                         v |-> results[i].json]]
                       IN IF value.kind = "Array" THEN items
                          ELSE SortedByKey(items)))
    ELSE Converted("panic", value)

\* NaiveDateTime::parse_from_str(value, "%Y-%m-%dT%H:%M:%S%.f"), the string
\* of a date and time being "t" and its seconds since the epoch
parse_from_str(bytes) ==
    IF Len(bytes) = 2 /\ bytes[1] = 116 THEN bytes[2] ELSE NotANumber

\* timestamp_millis, timestamp_micros, timestamp_nanos_opt of one second
UnitsPerSecond(schema) ==
    IF schema = "TimestampMillis" THEN 1000
    ELSE IF schema = "TimestampMicros" THEN 1000000
    ELSE 1000000000

\* the names of the fields of the record schema, in the schema's order
RecordFields == <<1, 2>>

\* the JSON object of a record that has no "value" member
NoValueMember == Val("missing", 0, <<>>, <<>>)

\* from_json: the JSON as a Value of the schema; a record is built field
\* by field of the schema, a member that is missing being
\* JsonToAvroFieldNotFound; a pair of schema and JSON without an arm of the
\* match is Error::JsonToAvro
RECURSIVE from_json(_, _)
from_json(schema, json) ==
    IF schema = "Null" /\ json.kind = "Null" THEN Converted("Ok", json)
    ELSE IF schema = "Boolean" /\ json.kind = "Boolean" THEN Converted("Ok", json)
    ELSE IF schema \in {"Int", "Long", "Double", "Float"} /\ json.kind = "Number"
    THEN Converted("Ok", Val(schema, json.n, <<>>, <<>>))
    ELSE IF schema = "Uuid" /\ json.kind = "String"
    THEN IF uuid_parse_str(json.bytes) = NotANumber THEN Converted("Uuid", json)
         ELSE Converted("Ok", Val("Uuid", uuid_parse_str(json.bytes), <<>>, <<>>))
    ELSE IF schema \in {"Bytes", "String"} /\ json.kind = "String"
    THEN Converted("Ok", Val(schema, 0, json.bytes, <<>>))
    ELSE IF schema \in {"TimestampMillis", "TimestampMicros", "TimestampNanos"}
            /\ json.kind = "String"
    THEN IF parse_from_str(json.bytes) = NotANumber THEN Converted("Parse", json)
         ELSE Converted("Ok", Val(schema,
                  parse_from_str(json.bytes) * UnitsPerSecond(schema), <<>>, <<>>))
    ELSE IF schema = "Enum" /\ json.kind = "String"
    THEN IF \E i \in DOMAIN Symbols : Symbols[i] = json.bytes
         THEN Converted("Ok", Val("Enum",
                  (CHOOSE i \in DOMAIN Symbols : Symbols[i] = json.bytes) - 1,
                  json.bytes, <<>>))
         ELSE Converted("JsonToAvro", json)
    ELSE IF schema = "Record" /\ json.kind = "Object"
    THEN LET results == [f \in DOMAIN RecordFields |->
                            IF \E i \in DOMAIN json.items :
                                  json.items[i].k = RecordFields[f]
                            THEN from_json(ItemSchema(schema, RecordFields[f]),
                                     json.items[CHOOSE i \in DOMAIN json.items :
                                        json.items[i].k = RecordFields[f]].v)
                            ELSE Converted("JsonToAvroFieldNotFound", json)]
             failure == FirstFailure(results)
         IN IF failure # "Ok" THEN Converted(failure, json)
            ELSE Converted("Ok", Val(schema, 0, <<>>,
                     [f \in DOMAIN RecordFields |->
                         [k |-> RecordFields[f], v |-> results[f].json]]))
    ELSE IF \/ schema = "Array" /\ json.kind = "Array"
            \/ schema = "Map" /\ json.kind = "Object"
    THEN LET results == [i \in DOMAIN json.items |->
                            from_json(ItemSchema(schema, json.items[i].k),
                                      json.items[i].v)]
             failure == FirstFailure(results)
         IN IF failure # "Ok" THEN Converted(failure, json)
            ELSE Converted("Ok", Val(schema, 0, <<>>,
                     [i \in DOMAIN json.items |->
                         [k |-> json.items[i].k, v |-> results[i].json]]))
    ELSE Converted("JsonToAvro", json)

\* a record's value is payload under the topic's value schema
AvroEncode(schema, value, order) ==
    /\ payload = NothingEncoded
    /\ payload' = [schema |-> schema, wire |-> schema_write(schema, value, order)]
    /\ UNCHANGED <<rendered, reencoded, columnVars>>
    /\ UNCHANGED <<storageVars, groupVars, cacheVars, fetchVars, txnVars,
                   topicVars, offsetVars, producerVars, schemaVars, metadataVars,
                   recordsVars>>

\* as_json_value of a batch of that record: decode, then json_value; the
\* call is Ok whatever json_value returned, the "value" member being left
\* out of the object when it returned an Err (Result::into_iter)
as_json_value ==
    /\ payload # NothingEncoded
    /\ rendered = NotConverted
    /\ LET value == json_value(reader(payload.schema, payload.wire))
       IN rendered' = IF value.kind \in {"Ok", "panic"} THEN value
                      ELSE Converted("Ok", NoValueMember)
    /\ UNCHANGED <<payload, reencoded, columnVars>>
    /\ UNCHANGED <<storageVars, groupVars, cacheVars, fetchVars, txnVars,
                   topicVars, offsetVars, producerVars, schemaVars, metadataVars,
                   recordsVars>>

\* as_kafka_record of the JSON that as_json_value returned: from_json,
\* then schema_write; a record without a value when the object has no
\* "value" member
as_kafka_record(order) ==
    /\ rendered.kind = "Ok"
    /\ reencoded = NotConverted
    /\ LET value == from_json(payload.schema, rendered.json)
       IN reencoded' =
            IF rendered.json = NoValueMember
            THEN Converted("Ok", NothingEncoded.wire)
            ELSE IF value.kind = "Ok"
            THEN Converted("Ok", schema_write(payload.schema, value.json, order))
            ELSE value
    /\ UNCHANGED <<payload, rendered, columnVars>>
    /\ UNCHANGED <<storageVars, groupVars, cacheVars, fetchVars, txnVars,
                   topicVars, offsetVars, producerVars, schemaVars, metadataVars,
                   recordsVars>>

\* ------------------------------ schema_data_type, schema_array_builder
\* the largest u8 and i8
U8Max == 255
I8Max == 127

\* a usize that is larger than the largest i32
BeyondI32 == -1

\* a usize is larger than the largest value of the narrower type
Exceeds(n, max) == n = BeyondI32 \/ n > max

\* an AvroSchema: its kind, the size of a fixed or the precision of a
\* decimal, the scale of a decimal, and the schemas of the items of an
\* array, the values of a map, the fields of a record or the variants of a
\* union
AvroSchema(kind, size, scale, of) ==
    [kind |-> kind, size |-> size, scale |-> scale, of |-> of]

SimpleKinds ==
    {"Null", "Boolean", "Int", "Long", "Float", "Double", "Bytes", "String",
     "Enum", "BigDecimal", "Uuid", "Date", "TimeMillis", "TimeMicros",
     "TimestampMillis", "TimestampMicros", "TimestampNanos",
     "LocalTimestampMillis", "LocalTimestampMicros", "LocalTimestampNanos",
     "Duration", "Ref"}

FixedSizes == {1, 16, BeyondI32}

Precisions == {16, 17, U8Max + 1}

Scales == {2, I8Max + 1}

LeafSchemas ==
    {AvroSchema(kind, 0, 0, <<>>) : kind \in SimpleKinds}
    \cup {AvroSchema("Fixed", size, 0, <<>>) : size \in FixedSizes}
    \cup {AvroSchema("Decimal", precision, scale, <<>>) :
             precision \in Precisions, scale \in Scales}

ColumnSchemas ==
    LeafSchemas
    \cup {AvroSchema(kind, 0, 0, <<leaf>>) :
             kind \in {"Array", "Map", "Record"}, leaf \in LeafSchemas}
    \cup {AvroSchema("Union", 0, 0, <<AvroSchema("Null", 0, 0, <<>>), leaf>>) :
             leaf \in LeafSchemas}
    \cup {AvroSchema("Union", 0, 0, <<AvroSchema("Int", 0, 0, <<>>), leaf>>) :
             leaf \in LeafSchemas}
    \cup {AvroSchema("Record", 0, 0,
                     <<AvroSchema("Union", 0, 0,
                                  <<AvroSchema("Int", 0, 0, <<>>), leaf>>)>>) :
             leaf \in LeafSchemas}

NoColumn == AvroSchema("none", 0, 0, <<>>)

\* a DataType: its name, the unit of a time or timestamp, the size of a
\* fixed size binary or the precision of a decimal, the scale of a
\* decimal, and the types of its fields
DataType(name, unit, size, scale, fields) ==
    [name |-> name, unit |-> unit, size |-> size, scale |-> scale,
     fields |-> fields]

Plain(name) == DataType(name, "", 0, 0, <<>>)

NoDataType == [kind |-> "none", type |-> Plain("none")]

Typed(type) == [kind |-> "Ok", type |-> type]

\* the Err of a try_from, and the panic of todo!()
NotTyped(kind) == [kind |-> kind, type |-> Plain("none")]

\* the struct of an avro duration
DurationType == DataType("Struct", "", 0, 0, <<Plain("UInt32"), Plain("UInt32"), Plain("UInt32")>>)

\* NullableVariant for UnionSchema: the variant that is not null of a
\* union of two variants of which one is null
nullable_variant(schema) ==
    IF Len(schema.of) = 2 /\ \E i \in 1..2 : schema.of[i].kind = "Null"
    THEN IF \E i \in 1..2 : schema.of[i].kind # "Null"
         THEN <<schema.of[CHOOSE i \in 1..2 :
                             /\ schema.of[i].kind # "Null"
                             /\ \A j \in 1..(i - 1) : schema.of[j].kind = "Null"]>>
         ELSE <<>>
    ELSE <<>>

\* schema_data_type: the DataType of the column of an AvroSchema
RECURSIVE schema_data_type(_)
schema_data_type(schema) ==
    IF schema.kind = "Null" THEN Typed(Plain("Null"))
    ELSE IF schema.kind = "Boolean" THEN Typed(Plain("Boolean"))
    ELSE IF schema.kind = "Int" THEN Typed(Plain("Int32"))
    ELSE IF schema.kind = "Long" THEN Typed(Plain("Int64"))
    ELSE IF schema.kind = "Float" THEN Typed(Plain("Float32"))
    ELSE IF schema.kind = "Double" THEN Typed(Plain("Float64"))
    ELSE IF schema.kind = "Bytes" THEN Typed(Plain("Binary"))
    ELSE IF schema.kind = "String" THEN Typed(Plain("Utf8"))
    ELSE IF schema.kind = "Array"
    THEN LET item == schema_data_type(schema.of[1])
         IN IF item.kind # "Ok" THEN item
            ELSE Typed(DataType("List", "", 0, 0, <<item.type>>))
    ELSE IF schema.kind = "Map"
    THEN LET value == schema_data_type(schema.of[1])
         IN IF value.kind # "Ok" THEN value
            ELSE Typed(DataType("Map", "", 0, 0, <<Plain("Utf8"), value.type>>))
    ELSE IF schema.kind = "Union"
    THEN IF nullable_variant(schema) # <<>>
         THEN schema_data_type(nullable_variant(schema)[1])
         ELSE LET results == [i \in DOMAIN schema.of |-> schema_data_type(schema.of[i])]
              IN IF FirstFailure(results) # "Ok" THEN NotTyped(FirstFailure(results))
                 ELSE IF Len(schema.of) > I8Max THEN NotTyped("TryFromInt")
                 ELSE Typed(DataType("Union", "Dense", 0, 0,
                                     [i \in DOMAIN results |-> results[i].type]))
    ELSE IF schema.kind = "Record"
    THEN LET results == [i \in DOMAIN schema.of |-> schema_data_type(schema.of[i])]
         IN IF FirstFailure(results) # "Ok" THEN NotTyped(FirstFailure(results))
            ELSE Typed(DataType("Struct", "", 0, 0,
                                [i \in DOMAIN results |-> results[i].type]))
    ELSE IF schema.kind = "Enum"
    THEN Typed(DataType("Dictionary", "", 0, 0, <<Plain("UInt32"), Plain("Utf8")>>))
    ELSE IF schema.kind = "Fixed"
    THEN IF schema.size = BeyondI32 THEN NotTyped("TryFromInt")
         ELSE Typed(DataType("FixedSizeBinary", "", schema.size, 0, <<>>))
    ELSE IF schema.kind = "Decimal"
    THEN IF Exceeds(schema.size, U8Max) \/ Exceeds(schema.scale, I8Max)
         THEN NotTyped("TryFromInt")
         ELSE Typed(DataType(IF schema.size <= 16 THEN "Decimal128" ELSE "Decimal256",
                             "", schema.size, schema.scale, <<>>))
    ELSE IF schema.kind = "Uuid" THEN Typed(Plain("Utf8"))
    ELSE IF schema.kind = "Date" THEN Typed(Plain("Date32"))
    ELSE IF schema.kind = "TimeMillis"
    THEN Typed(DataType("Time32", "Millisecond", 0, 0, <<>>))
    ELSE IF schema.kind = "TimeMicros"
    THEN Typed(DataType("Time64", "Microsecond", 0, 0, <<>>))
    ELSE IF schema.kind \in {"TimestampMillis", "LocalTimestampMillis"}
    THEN Typed(DataType("Timestamp", "Millisecond", 0, 0, <<>>))
    ELSE IF schema.kind \in {"TimestampMicros", "LocalTimestampMicros"}
    THEN Typed(DataType("Timestamp", "Microsecond", 0, 0, <<>>))
    ELSE IF schema.kind \in {"TimestampNanos", "LocalTimestampNanos"}
    THEN Typed(DataType("Timestamp", "Nanosecond", 0, 0, <<>>))
    ELSE IF schema.kind = "Duration" THEN Typed(DurationType)
    ELSE NotTyped("panic")

\* the arrays of Decimal128Builder::new() and of Decimal256Builder::new():
\* the largest precision of the type and the scale 10, whatever the schema
DecimalBuilderType(name) ==
    DataType(name, "", IF name = "Decimal128" THEN 38 ELSE 76, 10, <<>>)

\* try_fold over the fields: both schema_data_type and schema_array_builder
\* are called for a field, the builder being the argument of .and(), so a
\* panic of either wins; else the Err of the type, else that of the
\* builder, and the first field that fails ends the fold
RECURSIVE FieldFailure(_, _)
FieldFailure(types, builders) ==
    IF types = <<>> THEN "Ok"
    ELSE IF Head(types).kind = "panic" \/ Head(builders).kind = "panic" THEN "panic"
    ELSE IF Head(types).kind # "Ok" THEN Head(types).kind
    ELSE IF Head(builders).kind # "Ok" THEN Head(builders).kind
    ELSE FieldFailure(Tail(types), Tail(builders))

\* schema_array_builder: the ArrayBuilder of the column of an AvroSchema,
\* as the DataType of the arrays it finishes
RECURSIVE schema_array_builder(_)
schema_array_builder(schema) ==
    IF schema.kind = "Null" THEN Typed(Plain("Null"))
    ELSE IF schema.kind = "Boolean" THEN Typed(Plain("Boolean"))
    ELSE IF schema.kind = "Int" THEN Typed(Plain("Int32"))
    ELSE IF schema.kind = "Long" THEN Typed(Plain("Int64"))
    ELSE IF schema.kind = "Float" THEN Typed(Plain("Float32"))
    ELSE IF schema.kind = "Double" THEN Typed(Plain("Float64"))
    ELSE IF schema.kind = "Bytes" THEN Typed(Plain("Binary"))
    ELSE IF schema.kind = "String" THEN Typed(Plain("Utf8"))
    ELSE IF schema.kind = "Array"
    THEN LET item == schema_array_builder(schema.of[1])
         IN IF item.kind # "Ok" THEN item
            ELSE Typed(DataType("List", "", 0, 0, <<item.type>>))
    ELSE IF schema.kind = "Map"
    THEN LET value == schema_array_builder(schema.of[1])
         IN IF value.kind # "Ok" THEN value
            ELSE Typed(DataType("Map", "", 0, 0, <<Plain("Utf8"), value.type>>))
    ELSE IF schema.kind = "Union"
    THEN IF nullable_variant(schema) # <<>>
         THEN schema_array_builder(nullable_variant(schema)[1])
         ELSE NotTyped("panic")
    ELSE IF schema.kind = "Record"
    THEN LET types == [i \in DOMAIN schema.of |-> schema_data_type(schema.of[i])]
             builders == [i \in DOMAIN schema.of |-> schema_array_builder(schema.of[i])]
         IN IF FieldFailure(types, builders) # "Ok"
            THEN NotTyped(FieldFailure(types, builders))
            ELSE Typed(DataType("Struct", "", 0, 0,
                                [i \in DOMAIN builders |-> builders[i].type]))
    ELSE IF schema.kind = "Enum"
    THEN Typed(DataType("Dictionary", "", 0, 0, <<Plain("UInt32"), Plain("Utf8")>>))
    ELSE IF schema.kind = "Fixed" THEN Typed(Plain("Binary"))
    ELSE IF schema.kind = "Decimal"
    THEN IF Exceeds(schema.size, U8Max) THEN NotTyped("TryFromInt")
         ELSE Typed(DecimalBuilderType(IF schema.size <= 16 THEN "Decimal128"
                                       ELSE "Decimal256"))
    ELSE IF schema.kind = "Uuid" THEN Typed(Plain("Utf8"))
    ELSE IF schema.kind = "Date" THEN Typed(Plain("Date32"))
    ELSE IF schema.kind \in {"TimeMillis", "LocalTimestampMillis"}
    THEN Typed(DataType("Time32", "Millisecond", 0, 0, <<>>))
    ELSE IF schema.kind \in {"TimeMicros", "LocalTimestampMicros"}
    THEN Typed(DataType("Time64", "Microsecond", 0, 0, <<>>))
    ELSE IF schema.kind = "LocalTimestampNanos"
    THEN Typed(DataType("Time64", "Nanosecond", 0, 0, <<>>))
    ELSE IF schema.kind = "TimestampMillis"
    THEN Typed(DataType("Timestamp", "Millisecond", 0, 0, <<>>))
    ELSE IF schema.kind = "TimestampMicros"
    THEN Typed(DataType("Timestamp", "Microsecond", 0, 0, <<>>))
    ELSE IF schema.kind = "TimestampNanos"
    THEN Typed(DataType("Timestamp", "Nanosecond", 0, 0, <<>>))
    ELSE IF schema.kind = "Duration" THEN Typed(DurationType)
    ELSE NotTyped("panic")

\* the schema of a column is parsed
ColumnSchema(schema) ==
    /\ columnSchema = NoColumn
    /\ columnSchema' = schema
    /\ UNCHANGED <<columnType, columnBuilder>>
    /\ UNCHANGED <<payload, rendered, reencoded>>
    /\ UNCHANGED <<storageVars, groupVars, cacheVars, fetchVars, txnVars,
                   topicVars, offsetVars, producerVars, schemaVars, metadataVars,
                   recordsVars>>

\* schema_data_type of the column's schema
SchemaDataType ==
    /\ columnSchema # NoColumn
    /\ columnType = NoDataType
    /\ columnType' = schema_data_type(columnSchema)
    /\ UNCHANGED <<columnSchema, columnBuilder>>
    /\ UNCHANGED <<payload, rendered, reencoded>>
    /\ UNCHANGED <<storageVars, groupVars, cacheVars, fetchVars, txnVars,
                   topicVars, offsetVars, producerVars, schemaVars, metadataVars,
                   recordsVars>>

\* schema_array_builder of the column's schema
SchemaArrayBuilder ==
    /\ columnSchema # NoColumn
    /\ columnBuilder = NoDataType
    /\ columnBuilder' = schema_array_builder(columnSchema)
    /\ UNCHANGED <<columnSchema, columnType>>
    /\ UNCHANGED <<payload, rendered, reencoded>>
    /\ UNCHANGED <<storageVars, groupVars, cacheVars, fetchVars, txnVars,
                   topicVars, offsetVars, producerVars, schemaVars, metadataVars,
                   recordsVars>>

\* ----------------------------------------------------------- metadata
Nodes == 1..MaxBrokers

\* the topic id of a topic that was not found
NULL_TOPIC_ID == 0

NoMetadata ==
    [kind |-> "none", brokers |-> {}, topics |-> <<>>, request |-> <<>>,
     rows |-> <<>>]

IdleMetadata ==
    [pc |-> "idle", request |-> <<>>, brokers |-> {}, todo |-> <<>>,
     topics |-> <<>>, rows |-> <<>>]

\* the topics a request names: None or an empty slice for every topic of the
\* cluster, else a slice of names and ids
MetadataRequests ==
    UNION {[1..n -> TopicIds] : n \in 0..MaxMetadataTopics}

\* register_broker: the broker row of the node is upserted and its
\* listeners replaced, in one transaction
register_broker(node) ==
    /\ broker' = broker \cup {node}
    /\ UNCHANGED <<metadataResponse, mx>>
    /\ UNCHANGED <<storageVars, groupVars, cacheVars, fetchVars, txnVars,
                   topicVars, offsetVars, producerVars, schemaVars, avroVars, recordsVars>>

\* broker_metadata_select: the node ids of the cluster's brokers
broker_metadata_select == broker

\* broker_ids.shuffle(&mut rng): the orders thread_rng can produce
Shuffles(ids) ==
    {f \in [1..Cardinality(ids) -> ids] :
        \A i \in DOMAIN f, j \in DOMAIN f : f[i] = f[j] => i = j}

\* an iterator that yields the first id again and again
repeating(broker_ids, k) == broker_ids[1]

\* broker_ids.into_iter().cycle(): the k-th id that next() yields
cycle(broker_ids, k) == broker_ids[((k - 1) % Len(broker_ids)) + 1]

\* the MetadataResponsePartition of a partition: next() gives the leader
\* and the replication_factor calls of next() after it the replicas
MetadataPartition(broker_ids, partition_index, replication_factor) ==
    LET taken == partition_index * (1 + replication_factor)
        replica_nodes == [r \in 1..replication_factor |->
                             cycle(broker_ids, taken + 1 + r)]
    IN [partition_index |-> partition_index,
        leader_id |-> cycle(broker_ids, taken + 1),
        leader_epoch |-> -1,
        replica_nodes |-> replica_nodes,
        isr_nodes |-> replica_nodes,
        offline_replicas |-> <<>>]

\* the MetadataResponseTopic of a topic row
MetadataTopic(row, broker_ids) ==
    [error_code |-> "None", name |-> row.name, topic_id |-> row.id,
     partitions |-> [i \in 1..row.partitions |->
                        MetadataPartition(broker_ids, i - 1,
                                          row.replication_factor)]]

\* the MetadataResponseTopic of a topic that is not there
UnknownTopic(topic_id) ==
    [error_code |-> "UnknownTopicOrPartition",
     name |-> topic_id.name,
     topic_id |-> IF topic_id.by = "id" THEN topic_id.id ELSE NULL_TOPIC_ID,
     partitions |-> <<>>]

\* topic_by_cluster: the topic rows of the cluster
RECURSIVE topic_by_cluster(_)
topic_by_cluster(rows) ==
    IF rows = {} THEN <<>>
    ELSE LET r == CHOOSE r \in rows : \A q \in rows : r.id <= q.id
         IN <<r>> \o topic_by_cluster(rows \ {r})

\* the MetadataResponseTopic of the arm Err(reason) of topic_by_cluster
UnknownCluster ==
    [error_code |-> "UnknownTopicOrPartition", name |-> "",
     topic_id |-> NULL_TOPIC_ID, partitions |-> <<>>]

\* next() of the cycle over no broker id is None, and expect("cycling")
\* panics, when a partition asks for its leader
Panics(brokers, rows) ==
    brokers = {} /\ \E row \in rows : row.partitions > 0

\* metadata starts: a connection without a transaction, and the statement
\* that reads the broker rows
MetadataBrokers(request) ==
    /\ mx.pc = "idle"
    /\ mx' = [IdleMetadata EXCEPT
                 !.pc = IF request = <<>> THEN "cluster" ELSE "topics",
                 !.request = request, !.brokers = broker_metadata_select,
                 !.todo = request]
    /\ UNCHANGED <<broker, metadataResponse>>
    /\ UNCHANGED <<storageVars, groupVars, cacheVars, fetchVars, txnVars,
                   topicVars, offsetVars, producerVars, schemaVars, avroVars, recordsVars>>

\* one turn of the loop over the topics of the request: a statement of its
\* own reads the topic row by name or by id; a row gives its partitions
\* over the cycle of the shuffled broker ids, no row or an Err of the query
\* the entry of an unknown topic
MetadataTopicSelect(broker_ids, fails) ==
    /\ mx.pc = "topics"
    /\ mx.todo # <<>>
    /\ broker_ids \in Shuffles(mx.brokers)
    /\ LET topic_id == Head(mx.todo)
           found == IF fails THEN {} ELSE topic_select(topic_id)
       IN IF Panics(mx.brokers, found)
          THEN /\ metadataResponse' =
                     [NoMetadata EXCEPT !.kind = "panic", !.request = mx.request,
                                        !.rows = Append(mx.rows, found)]
               /\ mx' = IdleMetadata
          ELSE /\ mx' = [mx EXCEPT
                          !.todo = Tail(@),
                          !.rows = Append(@, found),
                          !.topics = Append(@,
                             IF found = {} THEN UnknownTopic(topic_id)
                             ELSE MetadataTopic(CHOOSE t \in found : TRUE,
                                                broker_ids))]
               /\ UNCHANGED metadataResponse
    /\ UNCHANGED broker
    /\ UNCHANGED <<storageVars, groupVars, cacheVars, fetchVars, txnVars,
                   topicVars, offsetVars, producerVars, schemaVars, avroVars, recordsVars>>

\* the request names no topic: one statement reads every topic row of the
\* cluster, and each row gives its partitions over a cycle of its own
\* shuffle; an Err of the query gives one entry of an unknown topic
MetadataTopicsByCluster(shuffles, fails) ==
    /\ mx.pc = "cluster"
    /\ LET rows == IF fails THEN <<>> ELSE topic_by_cluster(topic)
       IN /\ shuffles \in [1..Len(rows) -> Shuffles(mx.brokers)]
          /\ IF Panics(mx.brokers, Range(rows))
             THEN /\ metadataResponse' =
                        [NoMetadata EXCEPT !.kind = "panic",
                                           !.rows = [i \in 1..Len(rows) |-> {rows[i]}]]
                  /\ mx' = IdleMetadata
             ELSE /\ mx' = [mx EXCEPT
                             !.pc = "topics",
                             !.rows = [i \in 1..Len(rows) |-> {rows[i]}],
                             !.topics =
                                IF fails THEN <<UnknownCluster>>
                                ELSE [i \in 1..Len(rows) |->
                                         MetadataTopic(rows[i], shuffles[i])]]
                  /\ UNCHANGED metadataResponse
    /\ UNCHANGED broker
    /\ UNCHANGED <<storageVars, groupVars, cacheVars, fetchVars, txnVars,
                   topicVars, offsetVars, producerVars, schemaVars, avroVars, recordsVars>>

\* Ok(MetadataResponse { brokers, topics: responses })
MetadataFinish ==
    /\ mx.pc = "topics"
    /\ mx.todo = <<>>
    /\ metadataResponse' = [kind |-> "ok", brokers |-> mx.brokers,
                            topics |-> mx.topics, request |-> mx.request,
                            rows |-> mx.rows]
    /\ mx' = IdleMetadata
    /\ UNCHANGED broker
    /\ UNCHANGED <<storageVars, groupVars, cacheVars, fetchVars, txnVars,
                   topicVars, offsetVars, producerVars, schemaVars, avroVars, recordsVars>>

\* an error at one of the `?` of metadata: a prepare, or try_get of a row
MetadataFail ==
    /\ mx.pc \in {"topics", "cluster"}
    /\ metadataResponse' = [NoMetadata EXCEPT !.kind = "err", !.request = mx.request]
    /\ mx' = IdleMetadata
    /\ UNCHANGED broker
    /\ UNCHANGED <<storageVars, groupVars, cacheVars, fetchVars, txnVars,
                   topicVars, offsetVars, producerVars, schemaVars, avroVars, recordsVars>>

\* Postgres::metadata: the statements of the call, one after another, the
\* commits of other connections falling between them
MetadataSteps ==
    \/ \E broker_ids \in Shuffles(mx.brokers), fails \in BOOLEAN :
          MetadataTopicSelect(broker_ids, fails)
    \/ \E fails \in BOOLEAN :
          \E shuffles \in [1..(IF fails THEN 0 ELSE Cardinality(topic))
                              -> Shuffles(mx.brokers)] :
             MetadataTopicsByCluster(shuffles, fails)
    \/ MetadataFinish
    \/ MetadataFail

metadata ==
    \/ \E request \in MetadataRequests : MetadataBrokers(request)
    \/ MetadataSteps

\* no producer yet
ProducerInit ==
    /\ producer = {}
    /\ txn = {}
    /\ nextProducerId = 0
    /\ ix = [s \in Sessions |-> IdleProducerSession]
    /\ producerCalls = 0
    /\ producerResponse = NoProducerResponse
    /\ producerLog = {}

\* one producer whose epoch init_producer has bumped up to the largest i16
ProducerAtMaxEpoch ==
    /\ producer = {[id |-> 1, epoch |-> MaxEpoch]}
    /\ txn = {}
    /\ nextProducerId = 1
    /\ ix = [s \in Sessions |-> IdleProducerSession]
    /\ producerCalls = 0
    /\ producerResponse = NoProducerResponse
    /\ producerLog = {[id |-> 1, epoch |-> e] : e \in 0..MaxEpoch}

OtherInit ==
    /\ fx = IdleFetch
    /\ fetched = NothingFetched
    /\ txn_topition = {}
    /\ txnLog = {}
    /\ txnResponse = NoTxnResponse
    /\ topition = {}
    /\ topic_configuration = {}
    /\ consumer_offset = {}
    /\ topicResponse = NoTopicResponse
    /\ dx = [s \in Sessions |-> IdleDelete]
    /\ ox = [s \in Sessions |-> IdleOffsetSession]
    /\ offsetCalls = 0
    /\ offsetResponse = NoOffsetResponse
    /\ registered = NoSchema
    /\ validated = NotValidated
    /\ jsonArray = NothingRendered
    /\ broker = {}
    /\ metadataResponse = NoMetadata
    /\ mx = IdleMetadata
    /\ payload = NothingEncoded
    /\ rendered = NotConverted
    /\ reencoded = NotConverted
    /\ columnSchema = NoColumn
    /\ columnType = NoDataType
    /\ columnBuilder = NoDataType
    /\ rx = IdleDeleteRecords
    /\ deleteRecordsResponse = NothingDeleted
    /\ offsetStage = NoStage
    /\ listOffsetResponse = NothingListed

MoreInit == ProducerInit /\ OtherInit

Init == StorageInit /\ GroupInit /\ CacheNew(MaxRetention) /\ MoreInit

Next == StorageNext

Spec == Init /\ [][Next]_vars

\* the consumer group store alone
GroupNext == update_group

SpecGroup == Init /\ [][GroupNext]_vars

\* update_group calls that do not overlap: a call begins when no other is
\* under way
RetryNext ==
    \/ /\ \A o \in Sessions : gx[o].pc = "idle"
       /\ \E s \in Sessions, grp \in Groups, detail \in Details,
             version \in Versions(nextUuid) :
             UpdateGroupBegin(s, grp, detail, version)
    \/ \E s \in Sessions : UpdateGroupUpsert(s)
    \/ \E s \in Sessions : UpdateGroupDetail(s)
    \/ \E s \in Sessions : UpdateGroupCommit(s)
    \/ \E s \in Sessions : UpdateGroupFail(s)

SpecRetry == Init /\ [][RetryNext]_vars

\* the metadata cache alone
CacheNext == get_opts \/ put_opts \/ delete \/ Tick

InitCache == StorageInit /\ GroupInit /\ CacheInit /\ MoreInit

SpecCache == InitCache /\ [][CacheNext]_vars

\* one task that is the wrapped store's only writer and makes its calls one
\* after the other, on two paths
CopyNext ==
    \/ \E path \in CopyPaths, if_none_match \in {NoEtag} \cup 1..nextTag :
          GetBegin(1, path, if_none_match)
    \/ \E fault \in BOOLEAN : GetBackend(1, fault)
    \/ GetFinish(1)
    \/ \E path \in CopyPaths, outcome \in {"tagged", "untagged", "error"} :
          PutBackend(1, path, outcome)
    \/ PutFinish(1)
    \/ \E path \in CopyPaths, fault \in BOOLEAN : DeleteBackend(1, path, fault)
    \/ DeleteFinish(1)
    \/ copy(1)
    \/ copy_if_not_exists(1)
    \/ Tick

SpecCopy == InitCache /\ [][CopyNext]_vars

\* one task that puts, deletes, copies and lists, one call after the other
ListNext ==
    \/ \E path \in CopyPaths, outcome \in {"tagged", "untagged", "error"} :
          PutBackend(1, path, outcome)
    \/ PutFinish(1)
    \/ \E path \in CopyPaths, fault \in BOOLEAN : DeleteBackend(1, path, fault)
    \/ DeleteFinish(1)
    \/ copy(1)
    \/ copy_if_not_exists(1)
    \/ list(1)
    \/ list_with_delimiter(1)
    \/ Tick

SpecList == InitCache /\ [][ListNext]_vars

\* one client that creates topics first, then produces, deletes records
\* and reads the offset stage, one call at a time
RecordsNext ==
    \/ /\ calls = 0
       /\ \E name \in TopicNames, n \in 1..MaxPartitions :
             create_topic(name, n, 1, <<>>, FALSE, FALSE)
    \/ ProduceBy(1)
    \/ delete_records
    \/ /\ px[1].pc = "idle"
       /\ \E name \in TopicNames, p \in Partitions : offset_stage(name, p)
    \/ /\ px[1].pc = "idle" /\ rx.pc = "idle"
       /\ \E name \in TopicNames, p \in Partitions, request \in ListOffsetRequests,
             last_value \in SequenceValues :
             list_offsets(name, p, request, last_value)

SpecRecords == Init /\ [][RecordsNext]_vars

\* one client that creates a topic, produces and then fetches once, and
\* another connection that deletes the topic while the fetch is in flight
FetchNext ==
    \/ /\ nextTopicId = 0 /\ fetched.kind = "none" /\ fx.pc = "idle"
       /\ \E name \in TopicNames, n \in 1..MaxPartitions, v \in BOOLEAN :
             create_topic(name, n, 1, <<>>, FALSE, v)
    \/ /\ fetched.kind = "none" /\ fx.pc = "idle"
       /\ ProduceBy(1)
    \/ /\ fx.pc # "idle"
       /\ \E name \in TopicNames :
             DeleteTopicSelect(1, [by |-> "name", name |-> name, id |-> 0], FALSE)
    \/ DeleteTopicStatement(1)
    \/ DeleteTopicCommit(1)
    \/ /\ fetched.kind = "none" /\ px[1].pc = "idle"
       /\ \E a \in FetchArgs, fails \in BOOLEAN :
             FetchRecords(a.name, a.partition, a.offset, a.min_bytes, a.max_bytes, fails)
    \/ FetchHeaders
    \/ FetchFail

SpecFetch == Init /\ [][FetchNext]_vars

\* one transactional producer: every batch it produces while its
\* transaction is open belongs to the transaction
TxnNext ==
    \/ \E name \in TopicNames, n \in 1..MaxPartitions, v \in BOOLEAN :
          create_topic(name, n, 1, <<>>, FALSE, v)
    \/ ProduceBy(1)
    \/ /\ px[1].pc = "idle"
       /\ \E transaction \in Transactions, name \in TopicNames,
             partitions \in SUBSET Partitions :
             txn_add_partitions(transaction, name, partitions)
    \/ /\ px[1].pc = "idle"
       /\ \E transaction \in Transactions, committed \in BOOLEAN :
             txn_end(transaction, committed)

SpecTxn == Init /\ [][TxnNext]_vars

\* a client that creates topics, produces one batch of one record with a
\* header and commits offset 0 for one partition, one call after the other,
\* and two more connections that call delete_topic, the second by name
\* while the call of the first is in flight; a delete_topic runs alongside
\* the client's calls
TopicNext ==
    \/ /\ px[1].pc = "idle" /\ ox[1].pc = "idle"
       /\ \E name \in TopicNames, n \in 1..MaxPartitions, configs \in ConfigLists,
             configFails \in BOOLEAN, v \in BOOLEAN :
             create_topic(name, n, 1, configs, configFails, v)
    \/ /\ dx[2].pc = "idle"
       /\ \E topic_id \in TopicIds, fails \in BOOLEAN :
             DeleteTopicSelect(1, topic_id, fails)
    \/ /\ dx[1].pc # "idle" /\ nextTopicId = 1
       /\ \E name \in TopicNames :
             DeleteTopicSelect(2, [by |-> "name", name |-> name, id |-> 0], FALSE)
    \/ \E s \in Sessions : DeleteTopicStatement(s)
    \/ \E s \in Sessions : DeleteTopicCommit(s)
    \/ \E s \in Sessions : DeleteTopicFail(s)
    \/ /\ response.op = "none" /\ ox[1].pc = "idle"
       /\ \E name \in TopicNames, partition \in Partitions :
             ProduceBegin(1, name, partition, <<1>>)
    \/ ProduceSelect(1)
    \/ ProduceInsert(1, FALSE)
    \/ ProduceWatermark(1)
    \/ ProduceCommit(1)
    \/ ProduceFail(1)
    \/ /\ offsetResponse.op = "none" /\ px[1].pc = "idle"
       /\ \E grp \in Groups, name \in TopicNames, offsets \in OffsetRequests :
             /\ Cardinality(DOMAIN offsets) = 1
             /\ \A p \in DOMAIN offsets : offsets[p] = 0
             /\ \E order \in Slices(DOMAIN offsets) :
                   OffsetCommitBegin(1, grp, name, offsets, order)
    \/ OffsetCommitUpsert(1)
    \/ OffsetCommitCommit(1)
    \/ OffsetCommitFail(1)

SpecTopic == Init /\ [][TopicNext]_vars

\* clients that commit and fetch the offsets of a group, once the topics
\* are there
OffsetsNext ==
    \/ /\ offsetCalls = 0
       /\ \E name \in TopicNames, n \in 1..MaxPartitions :
             create_topic(name, n, 1, <<>>, FALSE, FALSE)
    \/ offset_commit
    \/ offset_fetch

SpecOffsets == Init /\ [][OffsetsNext]_vars

\* clients that initialise producers
ProducerNext == init_producer

SpecProducer == Init /\ [][ProducerNext]_vars

\* init_producer calls on a producer that has been initialised often
InitEpoch ==
    StorageInit /\ GroupInit /\ CacheNew(MaxRetention) /\ ProducerAtMaxEpoch /\ OtherInit

SpecEpoch == InitEpoch /\ [][ProducerNext]_vars

\* a value is encoded, rendered as JSON and encoded again from the JSON
AvroNext ==
    \/ \E schema \in AvroSchemas : \E value \in ValuesOf(schema) :
          \E order \in Orders(value.items) : AvroEncode(schema, value, order)
    \/ as_json_value
    \/ \E order \in Orders(payload.wire.items) : as_kafka_record(order)

SpecAvro == Init /\ [][AvroNext]_vars

\* a column's schema is parsed, its data type and its builder are made
ColumnNext ==
    \/ \E schema \in ColumnSchemas : ColumnSchema(schema)
    \/ SchemaDataType
    \/ SchemaArrayBuilder

SpecColumn == Init /\ [][ColumnNext]_vars

\* brokers register, topics are created and deleted, metadata is asked for
\* once
MetadataNext ==
    \/ \E node \in Nodes : register_broker(node)
    \/ \E name \in TopicNames, n \in 1..MaxPartitions,
          replication_factor \in 0..MaxReplication :
          create_topic(name, n, replication_factor, <<>>, FALSE, FALSE)
    \/ DeleteTopicOk(1)
    \/ /\ metadataResponse = NoMetadata
       /\ \E request \in MetadataRequests : MetadataBrokers(request)
    \/ MetadataSteps

SpecMetadata == Init /\ [][MetadataNext]_vars

\* a topic's schema is loaded, then a batch is validated under it
ValidateNext ==
    \/ /\ registered.format = "none"
       /\ \E format \in Formats, key \in DocumentSides, value \in DocumentSides :
             SchemaRegister(format, key, value)
    \/ /\ validated.kind = "none"
       /\ \E batch \in SchemaBatches : validate(batch)

SpecValidate == Init /\ [][ValidateNext]_vars

\* a topic's schema is loaded, then a batch is rendered as JSON under it
JsonNext ==
    \/ /\ registered.format = "none"
       /\ \E format \in Formats, key \in DocumentSides, value \in DocumentSides :
             SchemaRegister(format, key, value)
    \/ /\ jsonArray.kind = "none"
       /\ \E batch \in JsonBatches : AsJsonValue(batch)

SpecJson == Init /\ [][JsonNext]_vars

\* ================================================================ claims
Ids(rows) == [i \in 1..Len(rows) |-> rows[i].id]

Keys(table) == {[topic |-> w.topic, partition |-> w.partition] : w \in table}

\* the step in which session s returns from produce with the given kind
ProduceReturns(s, kind) ==
    /\ px[s].pc \in ProduceFailPoints
    /\ px'[s].pc = "idle"
    /\ response'.session = s
    /\ response'.op = "produce"
    /\ response'.kind = kind

\* C1: offset density: a partition that started empty and from which
\* delete_records removed nothing holds, after successful produce calls that
\* appended N records in total, exactly the offsets 0..N-1, each once.
C1_OffsetDensity ==
    \A h \in history :
        ~h.trimmed =>
            Ids(PartitionRows(record, h.topic, h.partition))
                = [i \in 1..h.appended |-> i - 1]

\* three records appended to one partition, nothing removed
C1_Witness ==
    \E h \in history :
        /\ ~h.trimmed
        /\ h.appended >= 3
        /\ Len(PartitionRows(record, h.topic, h.partition)) = h.appended

\* C2: concurrent produce calls on one partition are serialised by the row
\* lock on its watermark: in every reachable state the offsets of the
\* partition's records strictly increase in commit order, so no two records
\* share an offset.
C2_SerialisedAppends ==
    \A k \in Keys(watermark) :
        LET ids == Ids(PartitionRows(record, k.topic, k.partition))
        IN \A i, j \in 1..Len(ids) : i < j => ids[i] < ids[j]

\* one produce holds the row lock with records written, a second produce
\* on the same partition waits at its select, and the partition has records
C2_Witness ==
    \E s, o \in Sessions :
        /\ s # o
        /\ px[s].locked /\ Len(px[s].recs) > 0
        /\ px[o].pc = "select" /\ px[o].topic = px[s].topic
        /\ px[o].partition = px[s].partition /\ Len(px[o].batch) > 0
        /\ Len(PartitionRows(record, px[s].tid, px[s].partition)) > 0

\* C3: a produce that returns an error leaves the watermark, record and
\* header tables as they were.
C3_ProduceErrorAtomic ==
    [][\A s \in Sessions :
          ProduceReturns(s, "err") =>
              /\ watermark' = watermark
              /\ record' = record
              /\ header' = header]_vars

\* a produce returned an error after its transaction had written a record
\* row and a header row
C3_Witness ==
    /\ response.op = "produce"
    /\ response.kind = "err"
    /\ response.undone >= 2

\* C4: every watermark row satisfies low <= stable <= high.
C4_WatermarkOrder ==
    \A w \in watermark : w.low <= w.stable /\ w.stable <= w.high

\* an empty batch was produced to a partition whose watermark is still
\* unset, and another partition has had its first records
C4_Witness ==
    /\ response.op = "produce" /\ response.kind = "ok"
    /\ \E w \in watermark :
        w.partition = response.partition /\ w.high = -1
    /\ \E w \in watermark : w.high >= 0

\* C5: a partition's high watermark never decreases, and its low watermark
\* decreases in no step other than one of delete_records.
C5_WatermarkMonotonic ==
    [][\A w \in watermark : \A v \in watermark' :
          (v.topic = w.topic /\ v.partition = w.partition) =>
              /\ v.high >= w.high
              /\ v.low < w.low => delete_records]_vars

\* the high watermark advanced past its first value and records were
\* removed by delete_records
C5_Witness ==
    \E w \in watermark : \E h \in history :
        /\ h.topic = w.topic /\ h.partition = w.partition
        /\ h.trimmed
        /\ w.high >= 1

\* C6: a successful produce of N records to a partition whose high is H
\* appends records with the offsets H+1..H+N, returns H+1 (0 from an unset
\* watermark) and sets high to H+N.
C6_ProduceAssignsOffsets ==
    [][\A s \in Sessions :
          ProduceReturns(s, "ok") =>
              \A w \in WatermarkRows(px[s].tid, px[s].partition) :
                  LET n == Len(px[s].batch)
                      before == PartitionRows(record, w.topic, w.partition)
                      after == PartitionRows(record', w.topic, w.partition)
                  IN /\ Len(after) = Len(before) + n
                     /\ SubSeq(after, 1, Len(before)) = before
                     /\ \A i \in 1..n : after[Len(before) + i].id = w.high + i
                     /\ response'.value = w.high + 1
                     /\ \A v \in WatermarkRows(w.topic, w.partition)' :
                            v.high = w.high + n]_vars

\* a produce of a non-empty batch returned a base offset past 0
C6_Witness ==
    /\ response.op = "produce" /\ response.kind = "ok"
    /\ response.value >= 1
    /\ \E r \in 1..Len(record) :
        record[r].partition = response.partition /\ record[r].id > response.value

\* ------------------------------------------------ claims: Cache
\* a step in which task t's get_opts(path, if_none_match) is answered from
\* the cache: NotModified, and the wrapped store is not called
GetAnswered(t, path, if_none_match) ==
    /\ cacheCalls' = cacheCalls + 1
    /\ cx' = cx
    /\ getCount' = getCount
    /\ cacheResponse'.task = t /\ cacheResponse'.op = "get"
    /\ cacheResponse'.path = path /\ cacheResponse'.e_tag = if_none_match
    /\ cacheResponse'.kind = "NotModified" /\ cacheResponse'.hit
    /\ cacheResponse'.gets = 0

\* a step in which task t's get_opts(path, if_none_match) is passed on to
\* the wrapped store
GetForwarded(t, path, if_none_match) ==
    /\ cacheCalls' = cacheCalls + 1
    /\ cx[t].pc = "idle" /\ cx'[t].pc = "backend" /\ cx'[t].op = "get"
    /\ cx'[t].path = path /\ cx'[t].if_none_match = if_none_match

GetIssued(t, path, if_none_match) ==
    GetAnswered(t, path, if_none_match) \/ GetForwarded(t, path, if_none_match)

\* C7: a get_opts(p, if_none_match = T) issued while the entry for p holds T
\* and its age is below retention returns NotModified and makes no call of
\* the wrapped store
C7_CacheHit ==
    [][\A t \in Tasks, path \in Paths, T \in 1..MaxTags :
          /\ GetIssued(t, path, T)
          /\ entries[path].present /\ entries[path].e_tag = T
          /\ now - entries[path].tagged_at < retention
          => GetAnswered(t, path, T)]_vars

\* C8: a get_opts(p, if_none_match = T) issued once retention has elapsed
\* since the entry for p was tagged is not answered from the cache: the
\* entry is gone, the call is forwarded, and every forwarded get_opts has
\* made exactly one call of the wrapped store when it returns
C8_CacheExpiry ==
    [][/\ \A t \in Tasks, path \in Paths, T \in 1..MaxTags :
            /\ GetIssued(t, path, T)
            /\ entries[path].present /\ entries[path].e_tag = T
            /\ now - entries[path].tagged_at >= retention
            => /\ GetForwarded(t, path, T)
               /\ ~entries'[path].present
               /\ getCount' = getCount
       /\ \A t \in Tasks :
            cx[t].op = "get" /\ cx[t].pc = "backend" /\ cx'[t].pc # "backend" =>
                getCount' = getCount + 1 /\ cx'[t].pc = "finish"
       /\ \A t \in Tasks :
            cx[t].op = "get" /\ cx[t].pc = "finish" /\ cx'[t].pc # "finish" =>
                /\ cacheResponse'.task = t /\ cacheResponse'.gets = 1
                /\ ~cacheResponse'.hit
                /\ getCount' = getCount]_vars

\* a get_opts presenting the e-tag of an entry that had aged past retention
\* has returned after one call of the wrapped store, which answered
\* NotModified itself
C8_Witness ==
    /\ cacheResponse.op = "get"
    /\ cacheResponse.expired
    /\ cacheResponse.gets = 1
    /\ cacheResponse.kind = "NotModified"
    /\ as_millis(retention) > 0

\* ------------------------------------------------ claims: update_group
\* a step in which an update_group call returns
GroupReturned ==
    \/ groupResponse' # groupResponse
    \/ \E s \in Sessions : gx[s].pc # "idle" /\ gx'[s].pc = "idle"

\* the returning call stored its detail under an e-tag that no row and no
\* presented version carried, and returned that e-tag
StoredFresh ==
    LET r == groupResponse'
        call == gx[r.session]
    IN /\ r.kind = "ok"
       /\ {row \in consumer_group' : row.grp = call.grp} =
            {[grp |-> call.grp, e_tag |-> r.e_tag, detail |-> call.detail]}
       /\ r.e_tag \notin {row.e_tag : row \in consumer_group}
       /\ r.e_tag # call.version.e_tag
       /\ r.e_tag > ForeignUuid

\* the returning call left the table alone and returned Outdated
RefusedOutdated ==
    /\ groupResponse'.kind = "outdated"
    /\ consumer_group' = consumer_group

\* the returning call left the table alone and returned another error
RefusedInput ==
    /\ groupResponse'.kind \in {"MissingEtag", "Uuid"}
    /\ consumer_group' = consumer_group

RefusedBackend ==
    /\ groupResponse'.kind = "Backend"
    /\ consumer_group' = consumer_group

\* the Outdated outcome is built from the row stored when it is read
OutdatedCarriesStored ==
    \A s \in Sessions :
        gx[s].pc = "detail" /\ gx'[s].pc = "commit" =>
            /\ gx'[s].outcome.kind = "outdated"
            /\ \E row \in GroupRows(gx[s].grp) :
                /\ gx'[s].outcome.e_tag = row.e_tag
                /\ gx'[s].outcome.detail = row.detail

\* C9 as stated: every update_group call that meets no backend error either
\* stores the detail under a fresh e-tag and returns it, or leaves the row
\* unchanged and returns Outdated
C9_TwoOutcomes ==
    [][GroupReturned /\ groupResponse'.kind # "Backend" =>
          StoredFresh \/ RefusedOutdated]_vars

\* C9: every update_group call that returns Ok has stored the detail under a
\* freshly generated e-tag and returns that e-tag; every call that returns
\* Outdated has left the row unchanged and carries the (detail, e_tag) stored
\* when it read the row; a call whose version has no e-tag or one that is no
\* uuid, and a call that meets a backend error, returns that error and
\* leaves the row unchanged. No call does two of these.
C9_OutcomesExclusive ==
    [][/\ GroupReturned =>
            \/ StoredFresh /\ consumer_group' # consumer_group
            \/ RefusedOutdated
            \/ RefusedInput
            \/ RefusedBackend
       /\ OutdatedCarriesStored]_vars

\* one call has stored a detail and a later one was refused with the stored
\* detail and e-tag
C9_Witness ==
    /\ groupResponse.kind = "outdated"
    /\ \E row \in consumer_group :
        row.e_tag = groupResponse.e_tag /\ row.detail = groupResponse.detail

\* C10: the row is written only when the stored e_tag equals the presented
\* version's e_tag, or when no version is presented and no row exists
C10_WrittenOnlyOnMatch ==
    [][\A s \in Sessions :
          gx[s].pc = "commit" /\ consumer_group' # consumer_group =>
              \/ /\ gx[s].version.some
                 /\ \E row \in GroupRows(gx[s].grp) : row.e_tag = gx[s].version.e_tag
              \/ /\ ~gx[s].version.some
                 /\ GroupRows(gx[s].grp) = {}]_vars

\* ------------------------------------------------ claims: fetch
\* C11: after records with non-empty keys are produced to an empty
\* partition, fetch(partition, offset 0, min_bytes 0, large max_bytes)
\* returns all of the produced records, in offset order
C11_FetchReturnsAll ==
    ( /\ fetched.kind = "ok"
      /\ fetched.offset = 0
      /\ fetched.min_bytes = 0
      /\ fetched.max_bytes = LargeMaxBytes ) =>
        fetched.ids = fetched.stored

\* ------------------------------------------------ claims: transactions
\* C12: while a transaction that added a partition has not been ended by
\* txn_end, the partition's stable watermark stays at or below the offset
\* preceding the transaction's first record
C12_StableHeldByOpenTxn ==
    \A x \in txnLog :
        \A w \in WatermarkRows(x.topic, x.partition) : w.stable <= x.high

\* the records that the transaction appended to the partition of x
TxnRecords(x, rows) ==
    {i \in 1..Len(rows) : rows[i].topic = x.topic /\ rows[i].partition = x.partition
                            /\ rows[i].id > x.high}

\* C13: after txn_end(committed = true) the stable watermark of each
\* participating partition equals its high watermark; after
\* txn_end(committed = false) no record that the transaction appended lies
\* at or below the partition's stable watermark
C13_TxnEndResolves ==
    [][\A transaction \in Transactions, committed \in BOOLEAN :
          txn_end(transaction, committed) =>
              \A x \in txnResponse'.ended :
                  \A w \in WatermarkRows(x.topic, x.partition)' :
                      IF committed THEN w.stable = w.high
                      ELSE \A i \in TxnRecords(x, record') : record'[i].id > w.stable]_vars

\* C14: a create_topic call with validate_only set leaves no durable effect:
\* no topic row, no partition, no watermark and no config is written.
C14_ValidateOnlyLeavesNothing ==
    [][\A name \in TopicNames, n \in 1..MaxPartitions, configs \in ConfigLists,
         configFails \in BOOLEAN :
         create_topic(name, n, 1, configs, configFails, TRUE) =>
            UNCHANGED <<topic, topition, watermark, topic_configuration>>]_vars

\* C15: a create_topic call for a name that exists returns
\* TopicAlreadyExists and leaves the topic's id, partitions, watermarks,
\* records and configs as they were.
C15_ExistingTopicUntouched ==
    [][\A name \in TopicNames, n \in 1..MaxPartitions, configs \in ConfigLists,
         configFails \in BOOLEAN, v \in BOOLEAN :
         (TopicRows(name) # {} /\ create_topic(name, n, 1, configs, configFails, v)) =>
            /\ topicResponse'.kind = "TopicAlreadyExists"
            /\ UNCHANGED <<topic, topition, watermark, record, header,
                           topic_configuration, consumer_offset>>]_vars

\* a create_topic call was refused for a topic that has records and configs
C15_Witness ==
    /\ topicResponse.op = "create_topic"
    /\ topicResponse.kind = "TopicAlreadyExists"
    /\ \E t \in topic :
         /\ \E i \in 1..Len(record) : record[i].topic = t.id
         /\ \E c \in topic_configuration : c.topic = t.id

\* C17: offset_fetch returns, for each topition it was asked for, the
\* offset of the latest offset_commit for the group and topition, or -1
\* without one, and it sees the offsets of an offset_commit call all
\* together or not at all: what it returns is what the committed table
\* held at one moment of the call.
C17_FetchSeesWholeCommits ==
    [][\A s \in Sessions :
         OffsetFetchFinish(s) =>
            \E table \in ox[s].seen :
               \A i \in 1..Len(ox[s].result) :
                  ox[s].result[i].offset =
                     FetchedOffset(table, ox[s].grp, ox[s].topic,
                                   ox[s].result[i].partition)]_vars
\* C18: init_producer with (-1, -1) returns, at epoch 0, a producer id that
\* no earlier call returned; with the id of a producer it returns that id
\* at an epoch above every epoch returned for the id before the call began
\* and never an (id, epoch) that another call returned, whether the calls
\* run one after another or together.
C18_EpochsIncrease ==
    [][\A s \in Sessions :
         (InitProducerCommit(s) /\ producerResponse'.kind = "None") =>
            /\ [id |-> producerResponse'.id, epoch |-> producerResponse'.epoch]
                  \notin producerLog
            /\ IF ix[s].producer_id = -1 /\ ix[s].producer_epoch = -1
               THEN /\ producerResponse'.epoch = 0
                    /\ \A l \in producerLog : l.id # producerResponse'.id
               ELSE /\ producerResponse'.id = ix[s].producer_id
                    /\ producerResponse'.epoch > ix[s].floor]_vars
\* the side of a record passes: without a validator it is not looked at,
\* with one its bytes are there and conform
SidePasses(validator, encoded) == validator => encoded = "conforming"

\* C19: validate(batch) is Ok exactly when, in every record, each side that
\* has a validator has its bytes present and conforming; it is InvalidRecord
\* otherwise, so also when a side with a validator has no bytes; a side
\* without a validator is not checked, and a schema without any validator
\* passes every batch.
C19_ValidateExactly ==
    validated.kind = "validate" =>
        /\ validated.result \in {"Ok", "InvalidRecord"}
        /\ validated.result = "Ok" <=>
              \A i \in 1..Len(validated.batch) :
                 /\ SidePasses(registered.key, validated.batch[i].key)
                 /\ SidePasses(registered.value, validated.batch[i].value)
        /\ (~registered.key /\ ~registered.value) => validated.result = "Ok"

\* a batch failed on its second record, whose value has a validator and no
\* bytes, the key being without validator and not conforming
C19_Witness ==
    /\ validated.kind = "validate"
    /\ validated.result = "InvalidRecord"
    /\ ~registered.key /\ registered.value
    /\ Len(validated.batch) = 2
    /\ validated.batch[1] = [key |-> "nonconforming", value |-> "conforming"]
    /\ validated.batch[2].value = NoBytes
\* C20: when the wrapped store answers put_opts, get_opts or delete on a
\* path with an error, the Cache returns that error and has no entry for
\* the path afterwards.
C20_ErrorEvictsPath ==
    [][\A t \in Tasks :
         ((PutFinish(t) \/ GetFinish(t) \/ DeleteFinish(t))
            /\ cx[t].result.kind # "ok") =>
            /\ cacheResponse'.kind = cx[t].result.kind
            /\ entries'[cx[t].path] = NoEntry]_vars

\* the object of the path was stored and a delete, which has returned,
\* removed it from the wrapped store, and no put_opts has stored it again
Deleted(path) ==
    /\ nextTag > 0
    /\ ~object_store[path].present
    /\ \A u \in Tasks : cx[u].op = "delete" /\ cx[u].path = path => cx[u].pc = "idle"

\* C21: a delete that the wrapped store answers with Ok leaves no entry for
\* the path; a get_opts that follows it, whatever e-tag it presents as
\* if_none_match, is forwarded to the wrapped store and not answered from
\* the cache, and the wrapped store, the object being gone, answers it
\* with NotFound.
C21_DeleteEvicts ==
    [][/\ \A t \in Tasks :
            (DeleteFinish(t) /\ cx[t].result.kind = "ok") =>
                ~entries'[cx[t].path].present
       /\ \A t \in Tasks, path \in Paths, if_none_match \in 1..MaxTags :
            (GetIssued(t, path, if_none_match) /\ Deleted(path)) =>
                GetForwarded(t, path, if_none_match)
       /\ \A t \in Tasks :
            (GetBackend(t, FALSE) /\ ~object_store[cx[t].path].present) =>
                cx'[t].result.kind = "NotFound"]_vars

\* C22: the mutex of the entries is never held across a suspension point:
\* while a task of put_opts, get_opts or delete waits for the wrapped
\* store, or has its answer and has not yet returned, no task holds the
\* guard, so the other tasks' lock() is not blocked by it.
C22_LockNotHeldAcrossAwait ==
    \A t \in Tasks :
        cx[t].pc \in {"backend", "finish"} =>
            /\ ~cx[t].guard
            /\ entries_lock

\* a get_opts that missed waits for the wrapped store, its lock section
\* behind it, while the other task's put_opts is about to lock the entries
C22_Witness ==
    \E t \in Tasks, u \in Tasks :
        /\ t # u
        /\ cx[t].pc = "backend" /\ cx[t].op = "get"
        /\ cx[u].pc = "finish" /\ cx[u].op = "put"
        /\ entries_lock

\* the path's entry carries the e-tag the wrapped store holds for the path
CachedTagCurrent(es, path) ==
    /\ es[path].present
    /\ object_store[path].present
    /\ es[path].e_tag = object_store[path].e_tag

\* C25: under concurrent get_opts and put_opts on one path the cached
\* e-tag ends up being the e-tag the wrapped store holds: a get_opts that
\* read the store before a put_opts completed does not, when it returns,
\* replace the newer e-tag the put_opts cached with its older one.
C25_GetKeepsNewerTag ==
    [][\A t \in Tasks :
         (GetFinish(t) /\ CachedTagCurrent(entries, cx[t].path)) =>
             (entries'[cx[t].path].present =>
                 CachedTagCurrent(entries', cx[t].path))]_vars

\* C26: in a sequence of put, get, delete, copy and copy_if_not_exists made
\* one after the other through a Cache that is the wrapped store's only
\* writer, whenever get_opts answers NotModified from the cache for a path,
\* the e-tag the wrapped store holds for the path is the if_none_match
\* presented, also after the path was the destination of a copy.
C26_NotModifiedIsCurrent ==
    [][\A path \in CopyPaths, if_none_match \in 1..MaxTags :
         GetAnswered(1, path, if_none_match) =>
             /\ object_store[path].present
             /\ object_store[path].e_tag = if_none_match]_vars

\* the ids of a sequence are pairwise distinct
Distinct(nodes) ==
    \A i \in DOMAIN nodes, j \in DOMAIN nodes : nodes[i] = nodes[j] => i = j

\* C23: metadata for a topic that exists, with P partitions, returns one
\* topic entry whose topic id is not the null id and which has P partition
\* entries, of the indices 0..P-1; every leader_id is the node id of a
\* registered broker, and the replica_nodes of a partition are pairwise
\* distinct when the replication factor is at most the number of brokers.
C23_MetadataOfTopic ==
    metadataResponse.kind = "ok" =>
        /\ metadataResponse.request # <<>>
              => Len(metadataResponse.topics) = Len(metadataResponse.request)
        /\ \A i \in 1..Len(metadataResponse.rows) :
              \A row \in metadataResponse.rows[i] :
                 LET entry == metadataResponse.topics[i]
                 IN /\ entry.topic_id # NULL_TOPIC_ID
                    /\ Len(entry.partitions) = row.partitions
                    /\ \A k \in 1..row.partitions :
                          LET p == entry.partitions[k]
                          IN /\ p.partition_index = k - 1
                             /\ p.leader_id \in metadataResponse.brokers
                             /\ p.leader_id \in broker
                             /\ row.replication_factor
                                   <= Cardinality(metadataResponse.brokers)
                                   => Distinct(p.replica_nodes)

\* metadata returned a topic of two partitions and replication factor two
\* while two brokers were registered
C23_Witness ==
    /\ metadataResponse.kind = "ok"
    /\ Cardinality(metadataResponse.brokers) = 2
    /\ Len(metadataResponse.topics) = 1
    /\ metadataResponse.topics[1].error_code = "None"
    /\ Len(metadataResponse.topics[1].partitions) = 2
    /\ \A i \in 1..2 :
          Len(metadataResponse.topics[1].partitions[i].replica_nodes) = 2

\* C24: for a value of the primitive, list, record, map, enum, uuid, date,
\* time and timestamp subtypes, decoding the schema-encoded payload to JSON
\* (as_json_value) and encoding that JSON again (as_kafka_record) gives a
\* payload identical to the original.
C24_RoundTrip ==
    /\ rendered.kind \in {"none", "Ok"}
    /\ reencoded.kind \in {"none", "Ok"}
    /\ reencoded.kind = "Ok" => reencoded.json = payload.wire

\* the stored rows of the records that a fetch of the partition returned
\* C27: timestamps survive produce and fetch: for every record that fetch
\* returns, the base_timestamp of the batch plus the record's
\* timestamp_delta is the timestamp stored for the record when it was
\* produced; the first record has delta 0 and the later ones their
\* difference to it.
C27_TimestampsSurvive ==
    fetched.kind = "ok" =>
        \A i \in 1..Len(fetched.ids) :
            /\ fetched.rows[i].id = fetched.ids[i]
            /\ fetched.base_timestamp + fetched.timestamp_deltas[i]
                  = to_timestamp(fetched.rows[i].timestamp)

\* the key, value and header bytes fetch gathered over the first n records
\* of a batch
RECURSIVE BytesOf(_, _)
BytesOf(batch, n) ==
    IF n = 0 THEN 0
    ELSE BytesOf(batch, n - 1) + KeyBytes + HeaderBytes * batch.headers[n]

\* C28: fetch(topition, offset, min_bytes, max_bytes) returns a prefix, in
\* ascending id order, of the records with id >= offset the partition held
\* when fetch read it: no record is skipped or out of order; it stops
\* after the first record that brings the key, value and header bytes
\* gathered above min_bytes; with no record at or after the offset the
\* batch is empty, not an error.
C28_FetchPrefix ==
    [][/\ fetched'.kind = "ok" =>
             LET stored == fetched'.stored
                 ids == fetched'.ids
             IN /\ Len(ids) <= Len(stored)
                /\ \A i \in 1..Len(ids) : ids[i] = stored[i]
                /\ \A i \in 1..(Len(stored) - 1) : stored[i] < stored[i + 1]
                /\ \A n \in 0..(Len(ids) - 1) :
                      BytesOf(fetched', n) <= fetched'.min_bytes
                /\ (fetched'.max_bytes = LargeMaxBytes /\ Len(ids) < Len(stored)) =>
                      BytesOf(fetched', Len(ids)) > fetched'.min_bytes
       /\ (fx.pc = "idle" /\ fetched' # fetched) =>
             \A a \in FetchArgs :
                ( /\ FromOffset(a.name, a.partition, a.offset) = <<>>
                  /\ FetchRecords(a.name, a.partition, a.offset, a.min_bytes,
                                  a.max_bytes, FALSE) ) =>
                    fetched'.kind = "ok" /\ fetched'.ids = <<>>]_vars

\* of three stored records a fetch from offset 0 returned the first two,
\* the second one bringing the bytes above min_bytes
C28_Witness ==
    /\ fetched.kind = "ok"
    /\ fetched.offset = 0
    /\ fetched.max_bytes = LargeMaxBytes
    /\ fetched.ids = <<0, 1>>
    /\ Len(fetched.stored) = 3

\* the ids of the records of a partition
IdsOf(rows, tid, partition) ==
    {PartitionRows(rows, tid, partition)[i].id :
        i \in 1..Len(PartitionRows(rows, tid, partition))}

\* the partition result a step of delete_records has just added
NewResult ==
    IF rx'.pc = "idle"
    THEN deleteRecordsResponse'.partitions[Len(deleteRecordsResponse'.partitions)]
    ELSE rx'.results[Len(rx'.results)]

\* C29: delete_records(topic, partition, offset) removes exactly the records
\* of that partition with id >= offset and no record of another partition or
\* topic, and it returns, with error None, a low_watermark that is the
\* smallest remaining record id of the partition, or the value of the id
\* sequence when no record of the partition remains.
C29_DeleteRecordsLowWatermark ==
    [][/\ DeleteRecordsExecute =>
             record' = SelectSeq(record, LAMBDA r :
                          ~(/\ \E t \in TopicRows(rx.name) : r.topic = t.id
                            /\ r.partition = Head(rx.todo).partition_index
                            /\ r.id >= Head(rx.todo).offset))
       /\ \A last_value \in SequenceValues :
             DeleteRecordsSelect(last_value, FALSE) =>
                \A t \in TopicRows(rx.name) :
                   LET p == Head(rx.todo).partition_index
                       remaining == IdsOf(record, t.id, p)
                   IN /\ NewResult.partition_index = p
                      /\ NewResult.error_code = "None"
                      /\ NewResult.low_watermark =
                            IF remaining = {} THEN last_value
                            ELSE CHOOSE m \in remaining : \A i \in remaining : m <= i]_vars

\* C30: once delete_records has returned low_watermark L with error None for
\* a partition, offset_stage on that partition reports log_start = L.
C30_LogStartIsLowWatermark ==
    [][\A name \in TopicNames, p \in Partitions :
          \A i \in 1..Len(deleteRecordsResponse.partitions) :
             ( /\ deleteRecordsResponse.kind = "Ok"
               /\ deleteRecordsResponse.name = name
               /\ deleteRecordsResponse.partitions[i].partition_index = p
               /\ deleteRecordsResponse.partitions[i].error_code = "None"
               /\ offset_stage(name, p) ) =>
                 /\ offsetStage'.kind = "Ok"
                 /\ offsetStage'.log_start =
                       deleteRecordsResponse.partitions[i].low_watermark]_vars

\* the records of the partition whose timestamp is at or after an instant
Since(rows, name, partition, at) ==
    SelectSeq(RecordsOf(rows, name, partition), LAMBDA r : r.timestamp >= at)

\* C31: list_offsets on a partition returns, for Earliest, the minimum
\* record id of the partition and, for Timestamp(T), the minimum id among
\* the partition's records with timestamp >= T; without such a record the
\* response is offset 0 with the current time.  The offset is never that of
\* a record outside the partition or of a record with timestamp < T.
C31_ListOffsets ==
    (listOffsetResponse.call = calls /\ listOffsetResponse.request \in {"Earliest", "Timestamp"}) =>
        LET r == listOffsetResponse
            at == IF r.request = "Earliest" THEN 0 ELSE r.at
            since == Since(record, r.name, r.partition, at)
        IN /\ r.kind = "Ok"
           /\ since # <<>> => r.offset = MinId(since) /\ ~r.now
           /\ since = <<>> => r.offset = 0 /\ r.now

\* rows of a table that belong to one record
RowsAt(rows, tid, partition, offset) ==
    Len(SelectSeq(rows, LAMBDA r :
            r.topic = tid /\ r.partition = partition /\ r.id = offset))

\* C32: a produce that returns Ok has stored every record of the batch and
\* every header of each record; a produce with a failed header insert
\* returns an error and leaves no record and no header behind.
C32_ProduceStoresHeaders ==
    [][\A s \in Sessions :
          (px[s].pc # "idle" /\ px'[s].pc = "idle") =>
              /\ response'.kind = "ok" =>
                    \A i \in 1..Len(px[s].batch) :
                        LET offset == AssignedOffset(px[s].high, i - 1)
                        IN /\ RowsAt(record', px[s].tid, px[s].partition, offset) = 1
                           /\ RowsAt(header', px[s].tid, px[s].partition, offset)
                                 = px[s].batch[i]
              /\ px[s].aborted =>
                    /\ response'.kind = "err"
                    /\ record' = record
                    /\ header' = header]_vars

\* a produce has returned Ok for a batch with headers, and they are stored
C32_Witness ==
    /\ response.op = "produce" /\ response.kind = "ok"
    /\ header # <<>>
    /\ Len(record) = MaxBatch

\* C33: whenever init_producer returns an error, no producer row has been
\* written, no epoch has been bumped and no transaction binding has been
\* written, also when the bumped epoch does not fit in an i16.
C33_InitProducerErrorAtomic ==
    [][\A s \in Sessions :
          ( /\ ix[s].pc # "idle"
            /\ ix'[s].pc = "idle"
            /\ producerResponse'.session = s
            /\ producerResponse'.kind = "err" ) =>
              /\ producer' = producer
              /\ txn' = txn]_vars

\* C34: when update_group has returned Outdated{current, version} and no
\* other update_group of the group commits before the retry, a retry that
\* presents the returned version succeeds: it stores the detail and returns
\* a new e-tag.
C34_RetrySucceeds ==
    [][\A s \in Sessions :
          ( /\ gx[s].pc = "commit"
            /\ gx'[s].pc = "idle"
            /\ groupResponse.kind = "outdated"
            /\ gx[s].version.some
            /\ gx[s].version.e_tag = groupResponse.e_tag
            /\ groupResponse'.kind # "Backend" ) =>
              /\ groupResponse'.kind = "ok"
              /\ groupResponse'.e_tag # groupResponse.e_tag
              /\ \E row \in GroupRows(gx[s].grp)' :
                    /\ row.e_tag = groupResponse'.e_tag
                    /\ row.detail = gx[s].detail]_vars

\* a refused call is followed by a retry with the returned version, whose
\* statement has updated the row and which is about to commit
C34_Witness ==
    /\ groupResponse.kind = "outdated"
    /\ \E s \in Sessions :
          /\ gx[s].pc = "commit"
          /\ gx[s].version.some
          /\ gx[s].version.e_tag = groupResponse.e_tag
          /\ gx[s].write = "update"

\* C35: a get_opts that presents the cached e-tag before retention has
\* elapsed since the entry's last insert or hit is answered from the cache
\* without a call of the wrapped store, and sets the entry's tagged_at to the
\* time of the hit, so that the entry lasts retention from that hit.
C35_HitRefreshes ==
    [][\A t \in Tasks, path \in Paths, T \in 1..MaxTags :
          /\ GetIssued(t, path, T)
          /\ entries[path].present /\ entries[path].e_tag = T
          /\ now - entries[path].tagged_at < retention
          => /\ GetAnswered(t, path, T)
             /\ entries'[path].present
             /\ entries'[path].e_tag = T
             /\ entries'[path].tagged_at = now]_vars

\* C36: list, list_with_delimiter, copy and copy_if_not_exists are handed
\* to the wrapped store, whose answer is returned, and leave the cache map as
\* it was: no entry is added, removed, replaced or tagged anew.
C36_PassThrough ==
    [][/\ \A from \in CopyPaths, to \in CopyPaths, if_not_exists \in BOOLEAN,
             fault \in BOOLEAN :
             CopyThrough(1, from, to, if_not_exists, fault) =>
                 /\ entries' = entries
                 /\ cacheResponse'.kind =
                       IF fault THEN "Generic"
                       ELSE IF ~object_store[from].present THEN "NotFound"
                       ELSE IF if_not_exists /\ object_store[to].present
                       THEN "AlreadyExists"
                       ELSE "ok"
                 /\ cacheResponse'.kind = "ok" => object_store'[to].present
       /\ \A op \in {"list", "list_with_delimiter"},
             prefix \in {NoPrefix} \cup CopyPaths, fault \in BOOLEAN :
             ListThrough(1, op, prefix, fault) =>
                 /\ entries' = entries
                 /\ object_store' = object_store
                 /\ ~fault =>
                       listResult'.objects =
                          IF prefix = NoPrefix
                          THEN {q \in CopyPaths : object_store[q].present}
                          ELSE {}]_vars

\* an object was put and cached, copied to a path that has no entry, and
\* both objects were listed
C36_Witness ==
    /\ cacheResponse.op = "copy" /\ cacheResponse.kind = "ok"
    /\ entries["p"].present /\ ~entries["q"].present
    /\ object_store["q"].present
    /\ listResult.kind = "ok" /\ listResult.objects = CopyPaths

\* C37: in every metadata response, for every partition of every topic that
\* was resolved, leader_id is one of the partition's replica_nodes, and
\* isr_nodes equals replica_nodes.
C37_LeaderIsReplica ==
    metadataResponse.kind = "ok" =>
        \A i \in 1..Len(metadataResponse.topics) :
            LET partitions == metadataResponse.topics[i].partitions
            IN \A j \in 1..Len(partitions) :
                  /\ partitions[j].leader_id \in Range(partitions[j].replica_nodes)
                  /\ partitions[j].isr_nodes = partitions[j].replica_nodes

\* C38: metadata for a topic that exists and has at least one partition
\* returns a response and does not panic, however many brokers are
\* registered, none included.
C38_MetadataNeverPanics ==
    metadataResponse.kind # "panic"

\* C39: as_json_value rejects the batch as a whole: when a record's key or
\* value is absent where the schema has a validator for it, or does not
\* decode under that validator, the call returns an error and no array.
C39_AsJsonValueAtomic ==
    jsonArray.kind # "none" =>
        ((\E i \in 1..Len(jsonArray.batch) :
             \/ decode(registered.key, jsonArray.batch[i].key) # "Ok"
             \/ decode(registered.value, jsonArray.batch[i].value) # "Ok")
         => jsonArray.kind # "Ok")

\* C40: for every kind of Avro schema the builder that schema_array_builder
\* chooses builds exactly the DataType that schema_data_type declares for
\* the schema: a timestamp builder of the same unit for
\* local-timestamp-millis, -micros and -nanos, a fixed size binary builder
\* of size N for fixed(N).
C40_BuilderBuildsDeclaredType ==
    (columnType.kind = "Ok" /\ columnBuilder.kind # "none") =>
        /\ columnBuilder.kind = "Ok"
        /\ columnBuilder.type = columnType.type

====
